---- MODULE Spec2Model ----
(***************************************************************************)
(* Residual-learning temperature downscaling (genhack/src):                *)
(*   data_preparation.py  TrainingCubeBuilder                              *)
(*   modeling.py          SpatialCrossValidator, ResidualLearningModel     *)
(*   inference.py         HighResMapGenerator, generate_maps_for_period    *)
(*                                                                         *)
(* Numbers.  A Python float is a sequence of at most one integer: <<>> is  *)
(* NaN and <<v>> is the value v.  Temperatures are in hundredths of a      *)
(* degree (Celsius or Kelvin), the vegetation index is in units of 1/254.  *)
(* A date is the integer year * 100 + day.                                 *)
(***************************************************************************)
EXTENDS Integers, Sequences, FiniteSets, TLC

VARIABLES
    \* ---- TrainingCubeBuilder and its sources
    era5_files,     \* the coarse archive directory: year -> state of <year>_<variable>.nc
    ndvi_files,     \* the covariate directory, in listing order
    era5_cache,     \* self.era5_cache: cache key -> state of the dataset it holds
    ndvi_cache,     \* self.ndvi_cache: file path -> state of the raster it holds
    station_data,   \* the rows of station_data iterated so far
    lookups,        \* the pairs of lookups made so far: the query, what they returned
    training_data,  \* the list training_data
    cube_pc,        \* "build" while the loop runs, "done" once the cube is returned;
                    \* "lookups" for a builder whose lookups are called directly,
                    \* "closed" after close(), "reused" after a later lookup
    opens,          \* the xr.open_dataset and rasterio.open calls that succeeded
    printed,        \* what the builder has printed
    relookup,       \* the lookups made after close(): which earlier query, the results
    \* ---- SpatialCrossValidator
    split_df,       \* the cube handed to the splitter
    train_df,       \* the returned train_df
    test_df,        \* the returned test_df
    split_pc,       \* "ready", then "done" (returned) or "error" (raised)
    split_args,     \* the split made: which method, with which split_type
    \* ---- ResidualLearningModel: the instance in use and the artifact on disk
    model_type,     \* self.model_type
    model,          \* self.model: <<>> is None, <<r>> holds the regressor r
    feature_names,  \* self.feature_names: <<>> is None, <<names>> holds the list
    artifact,       \* the file at the model path: <<>> when there is none
    last_predict,   \* the last predict call: its outcome and what it passed on
    last_load,      \* the last load call: its outcome and what it read
    xgboost_installed,
    \* ---- generate_maps_for_period and HighResMapGenerator.generate_highres_map
    map_pc,         \* "load_model", the stage about to run, "done" or "aborted"
    map_dates,      \* pd.date_range(start_date, end_date)
    date_idx,       \* position of the loop in map_dates
    outcomes,       \* per date attempted so far: how its iteration ended
    stages,         \* the stages completed for the date at hand (or the last one)
    ndvi,           \* the covariate array of that date: pixel -> float
    era5_upsampled, \* the reprojected baseline: pixel -> float
    feature_df,     \* the table create_feature_grid returned
    predicted_residuals,
    residual_map,
    highres_map,
    out_files,      \* the rasters in the output directory
    model_load,     \* the load of line 401: "pending", "returned" or "raised"
    era5_open,      \* the dates whose coarse dataset is still open
    \* ---- StationMetadataParser
    catalogue,      \* the lines of stations.txt
    parsed,         \* the last parse_stations call: its outcome and its table
    parse_pc,       \* "ready", then "done" (returned) or "error" (raised)
    \* ---- StationTemperatureLoader
    station_files,  \* the data directory: station id -> the lines of its file
    raw_df,         \* the last raw table: what load_station_file returned, for which id
    clean_out,      \* the clean_temperature_data call on raw_df: its outcome
    country_out,    \* the last load_country_stations call: arguments and outcome
    \* ---- one covariate lookup
    stored_byte,    \* the byte the covariate rasters store at pixel (1, 1)
    q_files,        \* the covariate directory of the lookup, in listing order
    q_date,         \* the query date
    q_point,        \* the query point <<lat, lon>>
    q_train,        \* the get_ndvi_value call and the training row made of it
    q_infer,        \* the load_ndvi_for_date call
    \* ---- ResidualLearningModel.evaluate
    eval_df,        \* the test set handed to evaluate
    metrics         \* the evaluate call: its outcome, predictions and metrics

cube_vars == <<era5_files, ndvi_files, era5_cache, ndvi_cache, station_data,
               lookups, training_data, cube_pc, opens, printed, relookup>>

split_vars == <<split_df, train_df, test_df, split_pc, split_args>>

model_vars == <<model_type, model, feature_names, artifact, last_predict, last_load,
                xgboost_installed>>

map_vars == <<map_pc, map_dates, date_idx, outcomes, stages, ndvi, era5_upsampled,
              feature_df, predicted_residuals, residual_map, highres_map, out_files,
              model_load, era5_open>>

parse_vars == <<catalogue, parsed, parse_pc>>

load_vars == <<station_files, raw_df, clean_out, country_out>>

query_vars == <<stored_byte, q_files, q_date, q_point, q_train, q_infer>>

eval_vars == <<eval_df, metrics>>

vars == <<cube_vars, split_vars, model_vars, map_vars, parse_vars, load_vars, query_vars,
         eval_vars>>

\* What an operation of one class leaves alone: the state of the others.
NotCube == <<split_vars, model_vars, map_vars, parse_vars, load_vars, query_vars,
    eval_vars>>
NotSplit == <<cube_vars, model_vars, map_vars, parse_vars, load_vars, query_vars,
    eval_vars>>
NotModel == <<cube_vars, split_vars, map_vars, parse_vars, load_vars, query_vars,
    eval_vars>>
NotMap == <<cube_vars, split_vars, model_vars, parse_vars, load_vars, query_vars,
    eval_vars>>
NotParse == <<cube_vars, split_vars, model_vars, map_vars, load_vars, query_vars,
    eval_vars>>
NotLoad == <<cube_vars, split_vars, model_vars, map_vars, parse_vars, query_vars,
    eval_vars>>
NotQuery == <<cube_vars, split_vars, model_vars, map_vars, parse_vars, load_vars,
    eval_vars>>
NotEval == <<cube_vars, split_vars, model_vars, map_vars, parse_vars, load_vars,
    query_vars>>

----------------------------------------------------------------------------
(* Floats *)

NaN == <<>>
Num(v) == <<v>>
IsNaN(x) == x = NaN
Val(x) == x[1]

\* Float arithmetic propagates NaN.
FSub(a, b) == IF IsNaN(a) \/ IsNaN(b) THEN NaN ELSE Num(Val(a) - Val(b))
FAdd(a, b) == IF IsNaN(a) \/ IsNaN(b) THEN NaN ELSE Num(Val(a) + Val(b))

Abs(i) == IF i < 0 THEN -i ELSE i

----------------------------------------------------------------------------
(* Bounds and the sampled inputs *)

MaxObs == 2         \* rows of station_data
MaxDay == 1         \* days of a year: 0..MaxDay

Years == {2020, 2021}
Days == 0..MaxDay
Dates == {y * 100 + d : y \in Years, d \in Days}
YearOf(date) == date \div 100
DayOf(date) == date % 100

\* Station metadata as load_country_stations attaches it to each row.
\* Station 1 lies inside the coarse grid, station 2 north of it; both lie inside
\* the covariate rasters.
Stations == {1, 2}
StationLat(s) == IF s = 1 THEN 1 ELSE 3
StationLon(s) == IF s = 1 THEN 1 ELSE 2
StationElevation(s) == 25 * s
\* Cleaned observation values (hundredths of a degree Celsius).
Temps == {1250, 3000}

StationRow(s, date, tx) ==
    [STAID |-> s, DATE |-> date, LAT |-> StationLat(s), LON |-> StationLon(s),
     ELEVATION |-> StationElevation(s), TX |-> tx]

----------------------------------------------------------------------------
(* The coarse archive: one file per year, a grid of Kelvin values *)

Era5FileStates == {"absent", "corrupt", "novar", "ok"}
GridLats == {1, 2}
GridLons == {1, 2}
GridDays == {0}
GridK(year, day, lat, lon) ==
    28000 + 1000 * (year - 2020) + 100 * lat + 10 * lon + day
KelvinOffset == 27315

\* ds.sel(..., method='nearest') on one coordinate: the closest grid
\* coordinate, whatever the distance.
Nearest(coords, q) ==
    CHOOSE g \in coords :
        \A h \in coords : Abs(g - q) < Abs(h - q) \/ (Abs(g - q) = Abs(h - q) /\ g <= h)

EmptyCache == [k \in {} |-> "open"]

Put_Forget(cache, k, v) == cache

\* Lines 284 and 361: the handle just opened is stored under its key.
Put(cache, k, v) == [x \in DOMAIN cache \cup {k} |-> IF x = k THEN v ELSE cache[x]]

\* Lines 292-319: the extraction from an open dataset.  A dataset without the
\* expected variable raises inside the try block; nearest selection never does.
Era5Extract(files, date, lat, lon) ==
    IF files[YearOf(date)] = "novar"
    THEN NaN
    ELSE Num(GridK(YearOf(date), Nearest(GridDays, DayOf(date)),
                   Nearest(GridLats, lat), Nearest(GridLons, lon)) - KelvinOffset)

\* get_era5_value with the default variable, so the cache key is the year.
\* The result is the returned float and the cache as the call leaves it.
\* opened tells whether xr.open_dataset was called and succeeded, log is what
\* the call printed.  Reading through a dataset that close() has closed raises
\* inside the try block of lines 292-319, unless the library reopens the file
\* behind the dataset (the handle is then "reopenable").
get_era5_value(cache, files, date, lat, lon) ==
    LET year == YearOf(date)
        cached == year \in DOMAIN cache
        handle == IF cached THEN cache[year] ELSE "open"
    IN  IF ~cached /\ files[year] = "absent"
        THEN [val |-> NaN, cache |-> cache, opened |-> FALSE, log |-> <<>>]
        ELSE IF ~cached /\ files[year] = "corrupt"
        THEN [val |-> NaN, cache |-> cache, opened |-> FALSE,
              log |-> <<"Error loading ERA5 file">>]
        ELSE [val |-> IF handle = "closed" THEN NaN
                      ELSE Era5Extract(files, date, lat, lon),
              cache |-> IF cached THEN cache ELSE Put(cache, year, "open"),
              opened |-> ~cached,
              log |-> IF handle = "closed" \/ files[year] = "novar"
                      THEN <<"Error extracting ERA5 value">> ELSE <<>>]

----------------------------------------------------------------------------
(* The covariate directory: one byte raster per validity window *)

\* A file ndvi_<start>_<end>.tif: nparts is len(f.stem.split('_')); start and
\* end are what strptime makes of parts[1] and parts[2], <<>> when it raises
\* ValueError; status is whether rasterio.open succeeds.
NdviFile(path, nparts, start, end, status) ==
    [path |-> path, nparts |-> nparts, start |-> start, end |-> end, status |-> status]

NdviListings ==
    { <<>>,
      << NdviFile(1, 3, <<202000>>, <<202100>>, "ok"),
         NdviFile(2, 3, <<202100>>, <<202200>>, "ok") >>,
      << NdviFile(3, 2, <<>>, <<>>, "ok"),
         NdviFile(4, 3, <<202000>>, <<>>, "ok"),
         NdviFile(1, 3, <<202000>>, <<202001>>, "ok"),
         NdviFile(5, 3, <<202001>>, <<202100>>, "corrupt"),
         NdviFile(2, 3, <<202001>>, <<202200>>, "ok") >> }

\* Every raster has the same georeferencing: north-up, the top row at
\* latitude 3, the left column at longitude 1, 3 rows by 2 columns.
RasterHeight == 3
RasterWidth == 2
RasterRow(lat) == 3 - lat
RasterCol(lon) == lon - 1
RasterByte(path, row, col) ==
    CASE row = 0 /\ col = 0 -> 255
      [] row = 0 -> 254
      [] row = 2 /\ col = 0 -> 40 * path
      [] row = 1 /\ col = 1 -> stored_byte
      [] OTHER -> 0

NoDataByte == 255
ByteScale == 254

RECURSIVE SelectNdviFile_EndInclusive(_, _, _)
SelectNdviFile_EndInclusive(files, i, date) ==
    IF i > Len(files) THEN 0
    ELSE LET f == files[i]
         IN  IF /\ f.nparts >= 3
                /\ f.start # <<>>
                /\ f.end # <<>>
                /\ f.start[1] <= date
                /\ date <= f.end[1]
             THEN i
             ELSE SelectNdviFile_EndInclusive(files, i + 1, date)

\* Lines 336-353: the first file in listing order whose window holds the date;
\* 0 when there is none.
RECURSIVE SelectNdviFile(_, _, _)
SelectNdviFile(files, i, date) ==
    IF i > Len(files) THEN 0
    ELSE LET f == files[i]
         IN  IF /\ f.nparts >= 3
                /\ f.start # <<>>
                /\ f.end # <<>>
                /\ f.start[1] <= date
                /\ date < f.end[1]
             THEN i
             ELSE SelectNdviFile(files, i + 1, date)

DecodeNdvi_NoDataAsValue(value) == Num(2 * value - ByteScale)

\* Lines 391-401: the stored byte as a vegetation index, in units of 1/254.
DecodeNdvi(value) == IF value = NoDataByte THEN NaN ELSE Num(2 * value - ByteScale)

\* Lines 368-405: one pixel of an open raster, decoded.
NdviExtract(path, lat, lon) ==
    LET row == RasterRow(lat)
        col == RasterCol(lon)
    IN  IF ~(0 <= row /\ row < RasterHeight /\ 0 <= col /\ col < RasterWidth)
        THEN NaN
        ELSE DecodeNdvi(RasterByte(path, row, col))

\* Lines 321-405.  opened tells whether rasterio.open was called and
\* succeeded, log is what the call printed.  A raster that close() has closed
\* raises on any access, inside the try block of lines 369-405.
get_ndvi_value(cache, files, date, lat, lon) ==
    LET i == SelectNdviFile(files, 1, date)
        cached == files[i].path \in DOMAIN cache
        handle == IF cached THEN cache[files[i].path] ELSE "open"
    IN  IF i = 0
        THEN [val |-> NaN, cache |-> cache, opened |-> FALSE, log |-> <<>>]
        ELSE IF ~cached /\ files[i].status = "corrupt"
        THEN [val |-> NaN, cache |-> cache, opened |-> FALSE,
              log |-> <<"Error loading NDVI file">>]
        ELSE [val |-> IF handle = "closed" THEN NaN
                      ELSE NdviExtract(files[i].path, lat, lon),
              cache |-> IF cached THEN cache ELSE Put(cache, files[i].path, "open"),
              opened |-> ~cached,
              log |-> IF handle = "closed" THEN <<"Error extracting NDVI">> ELSE <<>>]

----------------------------------------------------------------------------
(* TrainingCubeBuilder.build_training_cube *)

DayOfYear(date) == DayOf(date) + 1

CubeRow_ResidualReversed(row, era5_temp, ndvi_value) ==
    [DATE |-> row.DATE, LAT |-> row.LAT, LON |-> row.LON,
     ELEVATION |-> row.ELEVATION, NDVI |-> ndvi_value,
     ERA5_Temp |-> era5_temp, Station_Temp |-> Num(row.TX),
     Residual |-> FSub(era5_temp, Num(row.TX)),
     STAID |-> row.STAID, DayOfYear |-> DayOfYear(row.DATE)]

\* Lines 445-458: the row appended for an observation that is not skipped.
CubeRow(row, era5_temp, ndvi_value) ==
    [DATE |-> row.DATE, LAT |-> row.LAT, LON |-> row.LON,
     ELEVATION |-> row.ELEVATION, NDVI |-> ndvi_value,
     ERA5_Temp |-> era5_temp, Station_Temp |-> Num(row.TX),
     Residual |-> FSub(Num(row.TX), era5_temp),
     STAID |-> row.STAID, DayOfYear |-> DayOfYear(row.DATE)]

SkipRow_OnlyWhenBothMissing(era5_temp, ndvi_value) == IsNaN(era5_temp) /\ IsNaN(ndvi_value)

\* Line 441: the row is skipped when either lookup is NaN.
SkipRow(era5_temp, ndvi_value) == IsNaN(era5_temp) \/ IsNaN(ndvi_value)

\* Line 408: the default progress_interval.
ProgressInterval == 1000

Message(text, n) == [text |-> text, n |-> n]
ErrorMessages(log) == [k \in 1..Len(log) |-> Message(log[k], 0)]

\* The successful open calls of a pair of lookups, era5 first (lines 430-433).
OpenCalls(e, year, n, path) ==
    (IF e.opened THEN <<[source |-> "era5", key |-> year]>> ELSE <<>>)
        \o (IF n.opened THEN <<[source |-> "ndvi", key |-> path]>> ELSE <<>>)

\* The path get_ndvi_value selects for a date, 0 when it selects none.
SelectedPath(files, date) ==
    IF SelectNdviFile(files, 1, date) = 0 THEN 0
    ELSE files[SelectNdviFile(files, 1, date)].path

\* A pair of lookups as lines 430-433 make it: the query and the two floats.
LookupPair(date, lat, lon, e, n) ==
    [date |-> date, lat |-> lat, lon |-> lon, era5 |-> e.val, ndvi |-> n.val]

NoRelookup == [of |-> 0, era5 |-> NaN, ndvi |-> NaN]

CubeInit ==
    /\ era5_files \in [Years -> Era5FileStates]
    /\ ndvi_files \in NdviListings
    /\ era5_cache = EmptyCache
    /\ ndvi_cache = EmptyCache
    /\ station_data = <<>>
    /\ lookups = <<>>
    /\ training_data = <<>>
    /\ cube_pc = "build"
    /\ opens = <<>>
    /\ printed = <<>>
    /\ relookup = NoRelookup

\* One iteration of the loop of lines 424-458, on the next row of station_data.
\* The rows carry the index labels 0, 1, ...
BuildStep ==
    /\ cube_pc = "build"
    /\ Len(station_data) < MaxObs
    /\ \E s \in Stations, date \in Dates, tx \in Temps :
        LET row == StationRow(s, date, tx)
            e == get_era5_value(era5_cache, era5_files, row.DATE, row.LAT, row.LON)
            n == get_ndvi_value(ndvi_cache, ndvi_files, row.DATE, row.LAT, row.LON)
            idx == Len(station_data)
        IN  /\ station_data' = Append(station_data, row)
            /\ lookups' = Append(lookups, LookupPair(row.DATE, row.LAT, row.LON, e, n))
            /\ era5_cache' = e.cache
            /\ ndvi_cache' = n.cache
            /\ opens' = opens \o OpenCalls(e, YearOf(row.DATE), n,
                                           SelectedPath(ndvi_files, row.DATE))
            /\ printed' = printed
                   \o (IF idx % ProgressInterval = 0
                       THEN <<Message("Processing row", idx)>> ELSE <<>>)
                   \o ErrorMessages(e.log) \o ErrorMessages(n.log)
            /\ training_data' =
                   IF SkipRow(e.val, n.val)
                   THEN training_data
                   ELSE Append(training_data, CubeRow(row, e.val, n.val))
    /\ UNCHANGED <<era5_files, ndvi_files, cube_pc, relookup>>

\* Lines 421 and 460-463: station_data is exhausted and the cube is returned.
\* The first message is printed before the loop, with the length of
\* station_data; the last one reports the length of the cube.
BuildReturn ==
    /\ cube_pc = "build"
    /\ cube_pc' = "done"
    /\ printed' = <<Message("Building training cube from", Len(station_data))>>
                      \o printed
                      \o <<Message("Built training cube with", Len(training_data))>>
    /\ UNCHANGED <<era5_files, ndvi_files, era5_cache, ndvi_cache, station_data,
                   lookups, training_data, opens, relookup>>

\* What a closed dataset is to a later read: whether the library reopens the
\* file behind it is not fixed by the code.
ClosedDatasetStates == {"closed", "reopenable"}

\* A builder used through its two lookups alone.
ReuseInit ==
    /\ era5_files \in [Years -> Era5FileStates]
    /\ ndvi_files \in NdviListings
    /\ era5_cache = EmptyCache
    /\ ndvi_cache = EmptyCache
    /\ station_data = <<>>
    /\ lookups = <<>>
    /\ training_data = <<>>
    /\ cube_pc = "lookups"
    /\ opens = <<>>
    /\ printed = <<>>
    /\ relookup = NoRelookup

\* get_era5_value and get_ndvi_value are called for the day and place of a
\* station.
Lookup ==
    /\ cube_pc = "lookups"
    /\ Len(lookups) < MaxObs
    /\ \E s \in Stations, date \in Dates :
        LET e == get_era5_value(era5_cache, era5_files, date, StationLat(s), StationLon(s))
            n == get_ndvi_value(ndvi_cache, ndvi_files, date, StationLat(s), StationLon(s))
        IN  /\ lookups' = Append(lookups, LookupPair(date, StationLat(s), StationLon(s), e, n))
            /\ era5_cache' = e.cache
            /\ ndvi_cache' = n.cache
            /\ opens' = opens \o OpenCalls(e, YearOf(date), n, SelectedPath(ndvi_files, date))
            /\ printed' = printed \o ErrorMessages(e.log) \o ErrorMessages(n.log)
    /\ UNCHANGED <<era5_files, ndvi_files, station_data, training_data, cube_pc, relookup>>

\* close(), lines 465-477: every cached handle is closed, both dictionaries
\* keep their entries.  prepare_training_data calls it once the cube was
\* returned (line 524).
close ==
    /\ cube_pc \in {"done", "lookups"}
    /\ \E after \in ClosedDatasetStates :
           era5_cache' = [k \in DOMAIN era5_cache |-> after]
    /\ ndvi_cache' = [k \in DOMAIN ndvi_cache |-> "closed"]
    /\ cube_pc' = "closed"
    /\ UNCHANGED <<era5_files, ndvi_files, station_data, lookups, training_data,
                   opens, printed, relookup>>

\* The two lookups of an earlier query are issued again on the closed builder.
LookupAfterClose ==
    /\ cube_pc = "closed"
    /\ \E i \in 1..Len(lookups) :
        LET q == lookups[i]
            e == get_era5_value(era5_cache, era5_files, q.date, q.lat, q.lon)
            n == get_ndvi_value(ndvi_cache, ndvi_files, q.date, q.lat, q.lon)
        IN  /\ relookup' = [of |-> i, era5 |-> e.val, ndvi |-> n.val]
            /\ era5_cache' = e.cache
            /\ ndvi_cache' = n.cache
            /\ opens' = opens \o OpenCalls(e, YearOf(q.date), n,
                                           SelectedPath(ndvi_files, q.date))
            /\ printed' = printed \o ErrorMessages(e.log) \o ErrorMessages(n.log)
    /\ cube_pc' = "reused"
    /\ UNCHANGED <<era5_files, ndvi_files, station_data, lookups, training_data>>

CubeNext ==
    \/ BuildStep /\ UNCHANGED NotCube
    \/ BuildReturn /\ UNCHANGED NotCube

ReuseNext ==
    \/ Lookup /\ UNCHANGED NotCube
    \/ close /\ UNCHANGED NotCube
    \/ LookupAfterClose /\ UNCHANGED NotCube

\* No builder: nothing is read and nothing is built.
CubeIdle ==
    /\ era5_files = [y \in Years |-> "absent"]
    /\ ndvi_files = <<>>
    /\ era5_cache = EmptyCache
    /\ ndvi_cache = EmptyCache
    /\ station_data = <<>>
    /\ lookups = <<>>
    /\ training_data = <<>>
    /\ cube_pc = "idle"
    /\ opens = <<>>
    /\ printed = <<>>
    /\ relookup = NoRelookup

----------------------------------------------------------------------------
(* Claims on the training cube *)

\* The observations of station_data, by index, for which both lookups
\* returned a value, in iteration order.
BothFound(i) == ~IsNaN(lookups[i].era5) /\ ~IsNaN(lookups[i].ndvi)
KeptIndices ==
    SelectSeq([i \in 1..Len(station_data) |-> i], LAMBDA i : BothFound(i))

\* C1: the cube holds a row for an observation if and only if both lookups
\* returned a non-missing value for it: the rows are, in order, exactly the
\* observations with two successful lookups, one row each, and no row carries
\* a missing (or substituted) baseline or covariate.
C1_RowIffBothLookupsFound ==
    /\ Len(training_data) = Len(KeptIndices)
    /\ \A j \in 1..Len(training_data) :
           j <= Len(KeptIndices) =>
               LET obs == station_data[KeptIndices[j]]
                   r == training_data[j]
               IN  /\ r.DATE = obs.DATE /\ r.STAID = obs.STAID
                   /\ r.LAT = obs.LAT /\ r.LON = obs.LON
                   /\ r.NDVI = lookups[KeptIndices[j]].ndvi
                   /\ ~IsNaN(r.NDVI) /\ ~IsNaN(r.ERA5_Temp)

\* A finished cube of MaxObs observations of which one was kept and one was
\* dropped with only one of its two lookups missing.
C1_Witness ==
    /\ cube_pc = "done"
    /\ Len(station_data) = MaxObs
    /\ Len(training_data) >= 1
    /\ \E i \in 1..Len(station_data) :
           IsNaN(lookups[i].era5) /\ ~IsNaN(lookups[i].ndvi)

\* C3: every row's Residual is its own Station_Temp minus its own ERA5_Temp,
\* Station_Temp being the value of the observation the row was built from and
\* ERA5_Temp the baseline looked up for that observation's date and location.
C3_ResidualIsStationMinusBaseline ==
    \A j \in 1..Len(training_data) :
        j <= Len(KeptIndices) =>
            LET obs == station_data[KeptIndices[j]]
                r == training_data[j]
            IN  /\ r.Station_Temp = Num(obs.TX)
                /\ r.ERA5_Temp =
                       get_era5_value(EmptyCache, era5_files, obs.DATE, obs.LAT, obs.LON).val
                /\ ~IsNaN(r.Residual)
                /\ Val(r.Residual) = Val(r.Station_Temp) - Val(r.ERA5_Temp)

\* Two rows built from observations with different values and baselines.
C3_Witness ==
    /\ cube_pc = "done"
    /\ Len(training_data) >= 2
    /\ training_data[1].Station_Temp # training_data[2].Station_Temp
    /\ training_data[1].ERA5_Temp # training_data[2].ERA5_Temp
    /\ training_data[1].Residual # training_data[2].Residual

\* The failure cases of a coarse lookup: no archive for the year, an archive
\* that cannot be opened, an extraction that raises, or a query point or date
\* outside what the grid covers.
InRange(coords, q) == \E lo \in coords, hi \in coords : lo <= q /\ q <= hi
Era5FailureCase(obs) ==
    \/ era5_files[YearOf(obs.DATE)] \in {"absent", "corrupt", "novar"}
    \/ ~InRange(GridLats, obs.LAT)
    \/ ~InRange(GridLons, obs.LON)
    \/ ~InRange(GridDays, DayOf(obs.DATE))

\* C6: get_era5_value returns the missing sentinel in every failure case.
C6_MissingOnEveryFailure ==
    \A i \in 1..Len(station_data) :
        Era5FailureCase(station_data[i]) => IsNaN(lookups[i].era5)

----------------------------------------------------------------------------
(* SpatialCrossValidator.spatial_split *)

MaxRows == 3            \* rows of the cube handed to the splitter
MaxSplitStation == 3
MaxGeoRows == 3      \* rows of the cube handed to geographic_split    \* station ids 1..MaxSplitStation

SplitRows == [STAID : 1..MaxSplitStation, LAT : {0, 1}]
\* test_size as a fraction, in tenths.
TestSizes == {2, 5}

RECURSIVE SeqsUpTo(_, _)
SeqsUpTo(S, n) ==
    IF n = 0 THEN {<<>>}
    ELSE LET shorter == SeqsUpTo(S, n - 1)
         IN  shorter \cup {Append(q, x) : q \in {t \in shorter : Len(t) = n - 1}, x \in S}

\* df['STAID'].unique(): the distinct ids in order of first appearance.
RECURSIVE Unique(_)
Unique(ids) ==
    IF ids = <<>> THEN <<>>
    ELSE LET front == Unique(SubSeq(ids, 1, Len(ids) - 1))
             last == ids[Len(ids)]
         IN  IF \E i \in 1..Len(front) : front[i] = last THEN front ELSE Append(front, last)

StationIds(df) == [i \in 1..Len(df) |-> df[i].STAID]
IdSet(df) == {df[i].STAID : i \in 1..Len(df)}

\* What the random state decides: a permutation of the n station positions.
Shuffles(n) == {p \in [1..n -> 1..n] : \A i, j \in 1..n : p[i] = p[j] => i = j}

\* train_test_split with a float test_size: ceil(test_size * n) samples go to
\* the test side, the rest to the train side.
NTest(n, tenths) == (tenths * n + 9) \div 10
NTrain(n, tenths) == n - NTest(n, tenths)

\* The shuffle: the first n_test positions of the permutation are the test
\* indices, the following n_train the train indices.
TestStations(unique, perm, n_test) == {unique[perm[i]] : i \in 1..n_test}

TrainStations_Overlapping(unique, perm, n_test) ==
    {unique[perm[i]] : i \in n_test..Len(unique)}

TrainStations(unique, perm, n_test) ==
    {unique[perm[i]] : i \in (n_test + 1)..Len(unique)}

\* df[df['STAID'].isin(stations)]
IsIn(df, stations) == SelectSeq(df, LAMBDA r : r.STAID \in stations)

NoSplit == [method |-> "none", split_type |-> ""]

SplitInit ==
    /\ split_df \in SeqsUpTo(SplitRows, MaxRows)
    /\ train_df = <<>>
    /\ test_df = <<>>
    /\ split_pc = "ready"
    /\ split_args = NoSplit

spatial_split ==
    /\ split_pc = "ready"
    /\ split_args' = [method |-> "spatial_split", split_type |-> ""]
    /\ \E tenths \in TestSizes :
        LET unique_stations == Unique(StationIds(split_df))
            n == Len(unique_stations)
        IN  IF n = 0 \/ NTrain(n, tenths) = 0
            THEN \* train_test_split raises ValueError: nothing is returned
                 /\ split_pc' = "error"
                 /\ UNCHANGED <<split_df, train_df, test_df>>
            ELSE \E perm \in Shuffles(n) :
                 /\ train_df' = IsIn(split_df,
                                     TrainStations(unique_stations, perm, NTest(n, tenths)))
                 /\ test_df' = IsIn(split_df,
                                    TestStations(unique_stations, perm, NTest(n, tenths)))
                 /\ split_pc' = "done"
                 /\ UNCHANGED split_df

SplitNext == spatial_split /\ UNCHANGED NotSplit

\* Lines 68-75: the coordinate column the split is made on.
CoordCol(split_type) == IF split_type = "latitude" THEN "LAT" ELSE "LON"

\* Series.median(): the middle value of the sorted column, the mean of the two
\* middle values when their number is even; here twice that median.
TwiceMedian(values) ==
    LET sorted == SortSeq(values, LAMBDA a, b : a < b)
        n == Len(values)
    IN  IF n % 2 = 1 THEN 2 * sorted[(n + 1) \div 2]
        ELSE sorted[n \div 2] + sorted[n \div 2 + 1]

\* Lines 78-79: the two sides of the median.
InTrainHalf_BelowOnly(coord, twice_median) == 2 * coord < twice_median

InTrainHalf(coord, twice_median) == 2 * coord <= twice_median

InTestHalf_MedianIncluded(coord, twice_median) == 2 * coord >= twice_median

InTestHalf(coord, twice_median) == 2 * coord > twice_median

\* The rows of the cubes handed to geographic_split: two stations, any
\* coordinates (a cube need not come from load_country_stations).
GeoRows == [STAID : {1, 2}, LAT : {0, 1, 3}, LON : {0, 2, 5}]
SplitTypes == {"latitude", "longitude"}

GeoInit ==
    /\ split_df \in SeqsUpTo(GeoRows, MaxGeoRows)
    /\ train_df = <<>>
    /\ test_df = <<>>
    /\ split_pc = "ready"
    /\ split_args = NoSplit

\* Lines 56-85.  The median of an empty column is NaN, which compares false
\* with everything: both sides are then empty.
geographic_split ==
    /\ split_pc = "ready"
    /\ \E split_type \in SplitTypes, tenths \in TestSizes :
          LET coord_col == CoordCol(split_type)
              column == [i \in 1..Len(split_df) |-> split_df[i][coord_col]]
          IN  /\ train_df' = IF split_df = <<>> THEN <<>>
                             ELSE SelectSeq(split_df,
                                    LAMBDA r : InTrainHalf(r[coord_col], TwiceMedian(column)))
              /\ test_df' = IF split_df = <<>> THEN <<>>
                            ELSE SelectSeq(split_df,
                                    LAMBDA r : InTestHalf(r[coord_col], TwiceMedian(column)))
              /\ split_args' = [method |-> "geographic_split", split_type |-> split_type]
    /\ split_pc' = "done"
    /\ UNCHANGED split_df

GeoNext == geographic_split /\ UNCHANGED NotSplit

SplitIdle ==
    /\ split_df = <<>>
    /\ train_df = <<>>
    /\ test_df = <<>>
    /\ split_pc = "idle"
    /\ split_args = NoSplit

----------------------------------------------------------------------------
(* ResidualLearningModel *)

None == <<>>
Some(x) == <<x>>

\* Line 122: the feature ordering prepare_features assigns.
FeatureNames == <<"ERA5_Temp", "NDVI", "ELEVATION", "LAT", "LON", "DayOfYear">>

ModelTypes == {"random_forest", "xgboost", "linear"}

\* A regressor: its family, whether fit has succeeded, and the columns, in
\* order, of the matrix it was fitted on.
Regressor(family, fitted, order) == [family |-> family, fitted |-> fitted, order |-> order]

\* The dataframes handed to train and predict: with every feature column and
\* some rows, with every feature column and no row, or lacking a feature column.
Frames == {"rows", "empty", "nocolumn"}

\* Lines 142-174: the regressor train constructs; self.model is left as it is
\* for a model_type that is neither 'random_forest' nor 'xgboost'.
NewRegressor(type, current, xgb) ==
    CASE type = "random_forest" -> Some(Regressor("RandomForestRegressor", FALSE, <<>>))
      [] type = "xgboost" /\ xgb -> Some(Regressor("XGBRegressor", FALSE, <<>>))
      [] type = "xgboost" /\ ~xgb -> Some(Regressor("RandomForestRegressor", FALSE, <<>>))
      [] OTHER -> current

\* self.model.fit(X_train, y_train) on a matrix with the given columns.
Fit(r, columns) == Regressor(r.family, TRUE, columns)

\* Whether self.model.predict(X) raises: no model, an unfitted one, no sample,
\* or a matrix whose width is not the width the regressor was fitted on.
PredictRaises(m, frame, columns) ==
    \/ m = None
    \/ ~m[1].fitted
    \/ frame = "empty"
    \/ Len(m[1].order) # Len(columns)

\* Lines 254-258: the dictionary save dumps.
SaveData(type, m, names) == [model |-> m, feature_names |-> names, model_type |-> type]

LoadInstance_WithoutNames(data) ==
    [model_type |-> data.model_type, model |-> data.model, feature_names |-> None]

\* Lines 266-270: the instance load builds from the dictionary it read.
LoadInstance(data) ==
    [model_type |-> data.model_type, model |-> data.model,
     feature_names |-> data.feature_names]

\* Artifacts written elsewhere: a model fitted on another ordering or on fewer
\* features, with the matching or a non-matching list of names.
SwappedNames == <<"NDVI", "ERA5_Temp", "ELEVATION", "LAT", "LON", "DayOfYear">>
ShortNames == <<"ERA5_Temp", "NDVI", "ELEVATION", "LAT", "LON">>
ExternalArtifacts ==
    { SaveData("random_forest",
               Some(Regressor("RandomForestRegressor", TRUE, fitted_on)), Some(names)) :
          fitted_on \in {FeatureNames, SwappedNames, ShortNames},
          names \in {FeatureNames, SwappedNames, ShortNames} }

NoCall == [out |-> "none"]

ModelInit ==
    /\ model_type \in ModelTypes
    /\ model = None
    /\ feature_names = None
    /\ artifact = None
    /\ last_predict = NoCall
    /\ last_load = NoCall
    /\ xgboost_installed \in BOOLEAN

\* train(train_df), lines 129-178.
train ==
    \E frame \in Frames :
        /\ feature_names' = Some(FeatureNames)
        /\ IF frame = "nocolumn"
           THEN model' = model          \* KeyError at line 124
           ELSE LET made == NewRegressor(model_type, model, xgboost_installed)
                IN  IF made = None \/ frame = "empty"
                    THEN model' = made  \* fit raises
                    ELSE model' = Some(Fit(made[1], FeatureNames))
        /\ UNCHANGED <<model_type, artifact, last_predict, last_load, xgboost_installed>>

\* predict(df), lines 180-191.
predict ==
    \E frame \in Frames :
        /\ feature_names' = Some(FeatureNames)
        /\ last_predict' =
               [out |-> IF frame = "nocolumn" \/ PredictRaises(model, frame, FeatureNames)
                        THEN "raised" ELSE "returned",
                recorded |-> feature_names,
                passed |-> FeatureNames,
                fitted_on |-> IF model = None THEN <<>> ELSE model[1].order]
        /\ UNCHANGED <<model_type, model, artifact, last_load, xgboost_installed>>

\* save(filepath), lines 252-259.  Beside the dumped data the artifact keeps
\* where it comes from and the fields of the instance that wrote it.
save ==
    /\ artifact' = Some([data |-> SaveData(model_type, model, feature_names),
                         origin |-> "save",
                         writer |-> [model_type |-> model_type, model |-> model,
                                     feature_names |-> feature_names]])
    /\ UNCHANGED <<model_type, model, feature_names, last_predict, last_load,
                   xgboost_installed>>

\* Another artifact is put at the model path.
PlaceArtifact ==
    /\ \E data \in ExternalArtifacts :
           artifact' = Some([data |-> data, origin |-> "external", writer |-> data])
    /\ UNCHANGED <<model_type, model, feature_names, last_predict, last_load,
                   xgboost_installed>>

\* ResidualLearningModel.load(filepath), lines 261-270; the returned instance
\* becomes the instance in use.
load ==
    IF artifact = None
    THEN \* joblib.load raises
         /\ last_load' = [out |-> "raised"]
         /\ UNCHANGED <<model_type, model, feature_names, artifact, last_predict,
                        xgboost_installed>>
    ELSE LET instance == LoadInstance(artifact[1].data)
         IN  /\ model_type' = instance.model_type
             /\ model' = instance.model
             /\ feature_names' = instance.feature_names
             /\ last_load' = [out |-> "returned", read |-> artifact[1],
                              instance |-> instance]
             /\ UNCHANGED <<artifact, last_predict, xgboost_installed>>

ModelNext ==
    \/ train /\ UNCHANGED NotModel
    \/ predict /\ UNCHANGED NotModel
    \/ save /\ UNCHANGED NotModel
    \/ PlaceArtifact /\ UNCHANGED NotModel
    \/ load /\ UNCHANGED NotModel

ModelIdle ==
    /\ model_type = "random_forest"
    /\ model = None
    /\ feature_names = None
    /\ artifact = None
    /\ last_predict = NoCall
    /\ last_load = NoCall
    /\ xgboost_installed = FALSE

----------------------------------------------------------------------------
(* HighResMapGenerator.generate_highres_map, stage by stage, inside the date
   loop of generate_maps_for_period *)

MaxEndDate == 2     \* start_date and end_date range over days 1..MaxEndDate
MapWidth == 2       \* columns of the fine grid
MapRows == {0, 1}   \* its rows
MapHeight == Cardinality(MapRows)

Pixels == MapRows \X (0..(MapWidth - 1))
NoArray == [p \in {} |-> NaN]

\* pd.date_range(start, end, freq='D'): ascending, empty when start > end.
DateRange(start, end) == [i \in 1..(IF end < start THEN 0 ELSE end - start + 1) |-> start + i - 1]

\* The pixels that can be NaN in an input array: every pattern for a run over
\* at most one date, three patterns for a longer run.
NaNPatterns == IF Len(map_dates) <= 1 THEN SUBSET Pixels ELSE {{}, {<<0, 0>>}, Pixels}

\* Lines 99-108: the covariate array, a decoded byte per pixel, NaN where the
\* byte is the nodata value.
NdviArray(date, nans) ==
    [p \in Pixels |-> IF p \in nans THEN NaN
                      ELSE Num(2 * (20 + 50 * p[1] + 17 * p[2] + date) - ByteScale)]

\* Lines 196-213: the baseline resampled onto the shape of the covariate array.
Era5Array(date, nans) ==
    [p \in Pixels |-> IF p \in nans THEN NaN
                      ELSE Num(1800 + 40 * p[1] + 7 * p[2] + 100 * date)]

\* Lines 239-271: the table of all pixels, in ravel (row-major) order.
RavelPixel(k, width) == <<(k - 1) \div width, (k - 1) % width>>
PixelRow(p, date, era5, nd) ==
    [ERA5_Temp |-> era5[p], NDVI |-> nd[p], ELEVATION |-> 0,
     LAT |-> 60 - p[1], LON |-> 10 + p[2], DayOfYear |-> date,
     row |-> p[1], col |-> p[2]]
AllPixelRows(date, era5, nd) ==
    [k \in 1..(MapHeight * MapWidth) |-> PixelRow(RavelPixel(k, MapWidth), date, era5, nd)]

DropNa_CovariateOnly(df) == SelectSeq(df, LAMBDA r : ~IsNaN(r.NDVI))

\* Line 274: df.dropna(subset=['ERA5_Temp', 'NDVI'])
DropNa(df) == SelectSeq(df, LAMBDA r : ~IsNaN(r.ERA5_Temp) /\ ~IsNaN(r.NDVI))

create_feature_grid(date, era5, nd) == DropNa(AllPixelRows(date, era5, nd))

\* The fitted regressor, as a function of the feature vector in the order of
\* FeatureNames.
RegressorValue(x) == x[2] + 3 * x[4] - 7 * x[5] + x[6] - (x[1] \div 100)
FeatureVector(r) ==
    <<Val(r.ERA5_Temp), Val(r.NDVI), r.ELEVATION, r.LAT, r.LON, r.DayOfYear>>

\* Lines 312-314: model.predict(feature_df); the regressor takes neither an
\* empty matrix nor a NaN.
ModelPredictRaises(df) ==
    \/ df = <<>>
    \/ \E k \in 1..Len(df) : IsNaN(df[k].ERA5_Temp) \/ IsNaN(df[k].NDVI)
ModelPredict(df) == [k \in 1..Len(df) |-> Num(RegressorValue(FeatureVector(df[k])))]

\* Line 318
HighresTemp(df, residuals) == [k \in 1..Len(df) |-> FAdd(df[k].ERA5_Temp, residuals[k])]

FillMap_ByPosition(df, values) ==
    [p \in Pixels |->
        IF \E k \in 1..Len(df) : RavelPixel(k, MapWidth) = p
        THEN values[CHOOSE k \in 1..Len(df) : RavelPixel(k, MapWidth) = p]
        ELSE NaN]

\* Lines 324-332: an array of NaN, then array[rows, cols] = values.
FillMap(df, values) ==
    [p \in Pixels |->
        IF \E k \in 1..Len(df) : df[k].row = p[1] /\ df[k].col = p[2]
        THEN values[CHOOSE k \in 1..Len(df) : df[k].row = p[1] /\ df[k].col = p[2]]
        ELSE NaN]

MapInit ==
    /\ map_pc = "load_model"
    /\ map_dates \in {DateRange(a, b) : a \in 1..2, b \in 1..MaxEndDate}
    /\ date_idx = 1
    /\ outcomes = <<>>
    /\ stages = <<>>
    /\ ndvi = NoArray
    /\ era5_upsampled = NoArray
    /\ feature_df = <<>>
    /\ predicted_residuals = <<>>
    /\ residual_map = NoArray
    /\ highres_map = NoArray
    /\ out_files = {}
    /\ model_load = "pending"
    /\ era5_open = {}

Date == map_dates[date_idx]
AtStage(name) == map_pc = name /\ date_idx <= Len(map_dates)

\* Lines 419-427: where the loop goes once a date's iteration has ended.
AfterDate(idx) == IF idx > Len(map_dates) THEN "done" ELSE "load_covariate"

AfterFailedDate_Break(idx) == "done"

\* Lines 428-430: the except clause continues with the next date.
AfterFailedDate(idx) == IF idx > Len(map_dates) THEN "done" ELSE "load_covariate"

\* Lines 139 and 160: load_era5_for_date opens the dataset of the year and
\* returns an array read from it; no statement closes it.  Once the iteration
\* of the date has ended nothing refers to it, and whether its finaliser has
\* released the file by then is left to the interpreter.
DropDataset(open) ==
    \E released \in BOOLEAN : era5_open' = IF released THEN open \ {Date} ELSE open

\* Lines 428-430: the exception of a stage is caught and the loop continues.
FailDate(stage) ==
    /\ outcomes' = Append(outcomes, [date |-> Date, status |-> "failed", stage |-> stage])
    /\ date_idx' = date_idx + 1
    /\ map_pc' = AfterFailedDate(date_idx + 1)

AfterLoadError_Caught(idx) == AfterDate(idx)

\* Line 401 stands outside every try block: the exception of load leaves
\* generate_maps_for_period.
AfterLoadError(idx) == "aborted"

Pass_SkipReconstruct(stage, next) ==
    /\ stages' = Append(stages, stage)
    /\ map_pc' = IF next = "reconstruct" THEN "write" ELSE next
    /\ UNCHANGED <<date_idx, outcomes>>

\* A stage of lines 294-336 has returned: the next statement runs.
Pass(stage, next) ==
    /\ stages' = Append(stages, stage)
    /\ map_pc' = next
    /\ UNCHANGED <<date_idx, outcomes>>

\* Line 401: ResidualLearningModel.load(model_path); its error is not caught.
LoadModel ==
    /\ map_pc = "load_model"
    /\ \E loads \in BOOLEAN :
           /\ model_load' = IF loads THEN "returned" ELSE "raised"
           /\ map_pc' = IF loads THEN AfterDate(1) ELSE AfterLoadError(1)
    /\ UNCHANGED <<map_dates, date_idx, outcomes, stages, ndvi, era5_upsampled, feature_df,
                   predicted_residuals, residual_map, highres_map, out_files, era5_open>>

\* Line 297: load_ndvi_for_date.
LoadCovariate ==
    /\ AtStage("load_covariate")
    /\ era5_upsampled' = NoArray
    /\ feature_df' = <<>>
    /\ predicted_residuals' = <<>>
    /\ residual_map' = NoArray
    /\ highres_map' = NoArray
    /\ \/ /\ \E nans \in NaNPatterns : ndvi' = NdviArray(Date, nans)
          /\ stages' = <<"LOAD_COVARIATE">>
          /\ map_pc' = "load_baseline"
          /\ UNCHANGED <<date_idx, outcomes>>
       \/ /\ FailDate("LOAD_COVARIATE")
          /\ ndvi' = NoArray
          /\ stages' = <<>>
    /\ UNCHANGED <<map_dates, out_files, model_load, era5_open>>

\* Line 300: load_era5_for_date.  It raises before opening anything when the
\* file of the year is missing (lines 135-136), or after xr.open_dataset when
\* the selection or the variable lookup fails (lines 142-155).
LoadBaseline ==
    /\ AtStage("load_baseline")
    /\ \/ Pass("LOAD_BASELINE", "reproject") /\ era5_open' = era5_open \cup {Date}
       \/ FailDate("LOAD_BASELINE") /\ UNCHANGED <<stages, era5_open>>
       \/ /\ FailDate("LOAD_BASELINE")
          /\ DropDataset(era5_open \cup {Date})
          /\ UNCHANGED stages
    /\ UNCHANGED <<map_dates, ndvi, era5_upsampled, feature_df, predicted_residuals,
                   residual_map, highres_map, out_files, model_load>>

\* Line 303: upsample_era5_to_highres.
ReprojectBaseline ==
    /\ AtStage("reproject")
    /\ \/ /\ \E nans \in NaNPatterns : era5_upsampled' = Era5Array(Date, nans)
          /\ Pass("REPROJECT_BASELINE", "feature_grid")
          /\ UNCHANGED era5_open
       \/ /\ FailDate("REPROJECT_BASELINE")
          /\ DropDataset(era5_open)
          /\ UNCHANGED <<stages, era5_upsampled>>
    /\ UNCHANGED <<map_dates, ndvi, feature_df, predicted_residuals, residual_map,
                   highres_map, out_files, model_load>>

\* Lines 306-310: create_feature_grid.
BuildFeatureGrid ==
    /\ AtStage("feature_grid")
    /\ feature_df' = create_feature_grid(Date, era5_upsampled, ndvi)
    /\ Pass("BUILD_FEATURE_GRID", "predict")
    /\ UNCHANGED <<map_dates, ndvi, era5_upsampled, predicted_residuals, residual_map,
                   highres_map, out_files, model_load, era5_open>>

\* Lines 312-314.
Predict ==
    /\ AtStage("predict")
    /\ IF ModelPredictRaises(feature_df)
       THEN /\ FailDate("PREDICT")
            /\ DropDataset(era5_open)
            /\ UNCHANGED <<stages, predicted_residuals>>
       ELSE /\ predicted_residuals' = ModelPredict(feature_df)
            /\ Pass("PREDICT", "reconstruct")
            /\ UNCHANGED era5_open
    /\ UNCHANGED <<map_dates, ndvi, era5_upsampled, feature_df, residual_map, highres_map,
                   out_files, model_load>>

\* Lines 316-336.
Reconstruct ==
    /\ AtStage("reconstruct")
    /\ residual_map' = FillMap(feature_df, predicted_residuals)
    /\ highres_map' = FillMap(feature_df, HighresTemp(feature_df, predicted_residuals))
    /\ Pass("RECONSTRUCT", "write")
    /\ UNCHANGED <<map_dates, ndvi, era5_upsampled, feature_df, predicted_residuals,
                   out_files, model_load, era5_open>>

\* Lines 339-358: the temperature raster.  A write that raises may or may not
\* leave the file behind.
WriteTemperature ==
    /\ AtStage("write")
    /\ \/ /\ out_files' = out_files \cup {<<"highres_temp", Date>>}
          /\ Pass("WRITE", "write_residual")
          /\ UNCHANGED era5_open
       \/ /\ \E left \in BOOLEAN :
                 out_files' = IF left THEN out_files \cup {<<"highres_temp", Date>>}
                              ELSE out_files
          /\ FailDate("WRITE")
          /\ DropDataset(era5_open)
          /\ UNCHANGED stages
    /\ UNCHANGED <<map_dates, ndvi, era5_upsampled, feature_df, predicted_residuals,
                   residual_map, highres_map, model_load>>

\* Lines 360-376: the companion residual raster, then the return.
WriteResidual ==
    /\ AtStage("write_residual")
    /\ \/ /\ out_files' = out_files \cup {<<"residual_highres_temp", Date>>}
          /\ stages' = Append(stages, "WRITE_RESIDUAL")
          /\ outcomes' = Append(outcomes, [date |-> Date, status |-> "ok", stage |-> "none"])
          /\ date_idx' = date_idx + 1
          /\ map_pc' = AfterDate(date_idx + 1)
          /\ DropDataset(era5_open)
       \/ /\ \E left \in BOOLEAN :
                 out_files' = IF left THEN out_files \cup {<<"residual_highres_temp", Date>>}
                              ELSE out_files
          /\ FailDate("WRITE_RESIDUAL")
          /\ DropDataset(era5_open)
          /\ UNCHANGED stages
    /\ UNCHANGED <<map_dates, ndvi, era5_upsampled, feature_df, predicted_residuals,
                   residual_map, highres_map, model_load>>

MapNext ==
    \/ LoadModel /\ UNCHANGED NotMap
    \/ LoadCovariate /\ UNCHANGED NotMap
    \/ LoadBaseline /\ UNCHANGED NotMap
    \/ ReprojectBaseline /\ UNCHANGED NotMap
    \/ BuildFeatureGrid /\ UNCHANGED NotMap
    \/ Predict /\ UNCHANGED NotMap
    \/ Reconstruct /\ UNCHANGED NotMap
    \/ WriteTemperature /\ UNCHANGED NotMap
    \/ WriteResidual /\ UNCHANGED NotMap

MapIdle ==
    /\ map_pc = "idle"
    /\ map_dates = <<>>
    /\ date_idx = 1
    /\ outcomes = <<>>
    /\ stages = <<>>
    /\ ndvi = NoArray
    /\ era5_upsampled = NoArray
    /\ feature_df = <<>>
    /\ predicted_residuals = <<>>
    /\ residual_map = NoArray
    /\ highres_map = NoArray
    /\ out_files = {}
    /\ model_load = "pending"
    /\ era5_open = {}

----------------------------------------------------------------------------
(* StationMetadataParser: the station catalogue and parse_stations *)

MaxLines == 3       \* lines of stations.txt

\* A coordinate field as dms_to_decimal sees it.  first is the character
\* dms_string[0] ("" for an empty field); nparts, deg, min and sec are what
\* split(':') and float() make of the text AFTER that first character: <<>>
\* where float() raises ValueError.
Dms(first, nparts, deg, min, sec) ==
    [first |-> first, nparts |-> nparts, deg |-> deg, min |-> min, sec |-> sec]

\* Lines 35-48.  An outcome is <<"ok", arc-seconds>> or <<"IndexError">> or
\* <<"ValueError">>.
dms_to_decimal(s) ==
    IF s.first = "" THEN <<"IndexError">>                   \* dms_string[0]
    ELSE IF s.deg = <<>> THEN <<"ValueError">>              \* float(parts[0])
    ELSE IF s.nparts < 2 THEN <<"IndexError">>              \* parts[1]
    ELSE IF s.min = <<>> THEN <<"ValueError">>
    ELSE IF s.nparts < 3 THEN <<"IndexError">>              \* parts[2]
    ELSE IF s.sec = <<>> THEN <<"ValueError">>
    ELSE <<"ok", (IF s.first = "+" THEN 1 ELSE -1)
                 * (s.deg[1] * 3600 + s.min[1] * 60 + s.sec[1])>>

\* A line of the catalogue.  header: the line contains 'STAID,STANAME';
\* blank: it is empty once stripped; nfields: len(line.split(',')); staid and
\* hght: what int() makes of fields 0 and 5, <<>> where it raises ValueError.
CatalogueLine(header, blank, nfields, staid, staname, cn, lat, lon, hght) ==
    [header |-> header, blank |-> blank, nfields |-> nfields, staid |-> staid,
     staname |-> staname, cn |-> cn, lat |-> lat, lon |-> lon, hght |-> hght]

NorthDms == Dms("+", 3, <<56>>, <<52>>, <<0>>)       \* "+56:52:00"
EastDms == Dms("+", 3, <<14>>, <<48>>, <<0>>)        \* "+014:48:00"
WestDms == Dms("-", 3, <<12>>, <<30>>, <<0>>)        \* "-012:30:00"
UnsignedDms == Dms("5", 3, <<6>>, <<52>>, <<0>>)     \* "56:52:00"
TwoPartDms == Dms("+", 2, <<56>>, <<52>>, <<>>)      \* "+56:52"
NoDms == Dms("", 0, <<>>, <<>>, <<>>)                \* ""

HeaderLine == CatalogueLine(TRUE, FALSE, 6, <<>>, "STANAME", "CN", NoDms, NoDms, <<>>)
BlankLine == CatalogueLine(FALSE, TRUE, 1, <<>>, "", "", NoDms, NoDms, <<>>)

CatalogueLines ==
    { HeaderLine,
      BlankLine,
      CatalogueLine(FALSE, FALSE, 5, <<1>>, "SHORT", "SE", NorthDms, EastDms, <<>>),
      CatalogueLine(FALSE, FALSE, 6, <<1>>, "VAEXJOE", "SE", NorthDms, EastDms, <<166>>),
      CatalogueLine(FALSE, FALSE, 6, <<1>>, "VAEXJOE II", "SE", NorthDms, WestDms, <<170>>),
      CatalogueLine(FALSE, FALSE, 6, <<2>>, "BRAGANCA", "PT", NorthDms, WestDms, <<690>>),
      CatalogueLine(FALSE, FALSE, 6, <<>>, "BAD ID", "SE", NorthDms, EastDms, <<10>>),
      CatalogueLine(FALSE, FALSE, 6, <<3>>, "BAD HEIGHT", "SE", NorthDms, EastDms, <<>>),
      CatalogueLine(FALSE, FALSE, 6, <<4>>, "UNSIGNED", "SE", UnsignedDms, EastDms, <<20>>),
      CatalogueLine(FALSE, FALSE, 6, <<5>>, "TWO PARTS", "SE", NorthDms, TwoPartDms, <<30>>),
      CatalogueLine(FALSE, FALSE, 6, <<6>>, "NO LATITUDE", "SE", NoDms, EastDms, <<40>>) }

\* Lines 64-68: the index after the first header line, 0 when there is none.
RECURSIVE DataStart(_, _)
DataStart(lines, i) ==
    IF i > Len(lines) THEN 0
    ELSE IF lines[i].header THEN i
    ELSE DataStart(lines, i + 1)

\* Lines 72-102 for one line: "skip" (lines 73-78, silent), "warn" (the
\* except clause) or "append".
LineOutcome(line) ==
    IF line.blank THEN "skip"
    ELSE IF line.nfields < 6 THEN "skip"
    ELSE IF line.staid = <<>> THEN "warn"
    ELSE IF line.hght = <<>> THEN "warn"
    ELSE IF dms_to_decimal(line.lat)[1] # "ok" THEN "warn"
    ELSE IF dms_to_decimal(line.lon)[1] # "ok" THEN "warn"
    ELSE "append"

\* Lines 92-99.
StationRecord(line) ==
    [STAID |-> line.staid[1], STANAME |-> line.staname, CN |-> line.cn,
     LAT_DEC |-> dms_to_decimal(line.lat)[2], LON_DEC |-> dms_to_decimal(line.lon)[2],
     ELEVATION |-> line.hght[1]]

\* Lines 71-102: the list stations after the loop.
RECURSIVE ParseLines(_, _, _)
ParseLines(lines, i, acc) ==
    IF i > Len(lines) THEN acc
    ELSE ParseLines(lines, i + 1,
            IF LineOutcome(lines[i]) = "append"
            THEN Append(acc, StationRecord(lines[i])) ELSE acc)

\* Lines 71-102: the number of warnings printed.
Warnings(lines, from) ==
    Cardinality({i \in from..Len(lines) : LineOutcome(lines[i]) = "warn"})

NotParsed == [status |-> "none", error |-> "", table |-> <<>>, warnings |-> 0]

ParseInit ==
    /\ catalogue \in SeqsUpTo(CatalogueLines, MaxLines)
    /\ parsed = NotParsed
    /\ parse_pc = "ready"

\* Lines 50-106.  pd.DataFrame([]) has no column, so df['CN'] on line 105
\* raises KeyError when no line was appended.
parse_stations ==
    /\ parse_pc = "ready"
    /\ LET from == DataStart(catalogue, 1) + 1
           stations == ParseLines(catalogue, from, <<>>)
       IN  IF stations = <<>>
           THEN /\ parsed' = [status |-> "raised", error |-> "KeyError",
                              table |-> <<>>, warnings |-> Warnings(catalogue, from)]
                /\ parse_pc' = "error"
           ELSE /\ parsed' = [status |-> "returned", error |-> "",
                              table |-> stations, warnings |-> Warnings(catalogue, from)]
                /\ parse_pc' = "done"
    /\ UNCHANGED catalogue

ParseNext == parse_stations /\ UNCHANGED NotParse

ParseIdle ==
    /\ catalogue = <<>>
    /\ parsed = NotParsed
    /\ parse_pc = "idle"

----------------------------------------------------------------------------
(* StationTemperatureLoader: the per-station files, load_station_file,
   clean_temperature_data and load_country_stations *)

MaxFileLines == 2   \* lines of a per-station file
MaxRawRows == 2     \* rows of a raw table handed to clean_temperature_data

MissingValue == -9999       \* line 187

\* A DATE field as read from the file: valid says whether it is a date in the
\* format %Y%m%d, day is that date.
DateString(valid, day) == [valid |-> valid, day |-> day]
BadDateString == DateString(FALSE, 0)       \* "20231345"

\* pd.DataFrame(): no column and no row.
NoFrame == [columns |-> {}, rows |-> <<>>]
RawColumns == {"STAID", "DATE", "TX", "Q_TX"}
CleanColumns == RawColumns \cup {"LAT", "LON", "ELEVATION", "STANAME"}

\* self.stations_meta: the catalogue the loader was built with.
StationsMeta ==
    << [STAID |-> 1, CN |-> "SE", LAT_DEC |-> 204720],
       [STAID |-> 2, CN |-> "SE", LAT_DEC |-> 212400],
       [STAID |-> 3, CN |-> "DE", LAT_DEC |-> 187200] >>
StationIdsOfMeta == {StationsMeta[i].STAID : i \in 1..Len(StationsMeta)}
CountryCodes == {"SE", "DE", "FR"}

\* A line of TX_STAID<id>.txt.  header: the line contains 'STAID, SOUID';
\* nfields: len(parts); staid, tx and q: what int() makes of fields 0, 3 and
\* 4, <<>> where it raises ValueError; date: field 2.
FileLine(header, nfields, staid, date, tx, q) ==
    [header |-> header, nfields |-> nfields, staid |-> staid, date |-> date,
     tx |-> tx, q |-> q]

FileLinesFor(s) ==
    { FileLine(TRUE, 5, <<>>, BadDateString, <<>>, <<>>),
      FileLine(FALSE, 5, <<s>>, DateString(TRUE, 1), <<215>>, <<0>>),
      FileLine(FALSE, 5, <<s>>, DateString(TRUE, 2), <<180>>, <<0>>),
      FileLine(FALSE, 5, <<s>>, DateString(TRUE, 3), <<-35>>, <<0>>),
      FileLine(FALSE, 5, <<s>>, DateString(TRUE, 2), <<190>>, <<1>>),
      FileLine(FALSE, 5, <<s>>, DateString(TRUE, 2), <<MissingValue>>, <<0>>),
      FileLine(FALSE, 5, <<s>>, DateString(TRUE, 1), <<>>, <<0>>),
      FileLine(FALSE, 5, <<s>>, BadDateString, <<200>>, <<0>>),
      FileLine(FALSE, 4, <<s>>, DateString(TRUE, 1), <<210>>, <<>>) }

\* The content of the data directory for a station: <<>> when it has no file.
FileContents(s) ==
    {None} \cup {Some(lines) : lines \in SeqsUpTo(FileLinesFor(s), MaxFileLines)}
FewFileContents(s) ==
    { None,
      Some(<< >>),
      Some(<< FileLine(FALSE, 5, <<s>>, DateString(TRUE, 2), <<175>>, <<0>>) >>),
      Some(<< FileLine(FALSE, 5, <<s>>, DateString(TRUE, 3), <<160>>, <<9>>) >>) }

OtherCountryFile ==
    Some(<< FileLine(FALSE, 5, <<3>>, DateString(TRUE, 2), <<120>>, <<0>>) >>)

\* Lines 137-141: the index of the first header line, 0 when there is none.
RECURSIVE FileDataStart(_, _)
FileDataStart(lines, i) ==
    IF i > Len(lines) THEN 0
    ELSE IF lines[i].header THEN i
    ELSE FileDataStart(lines, i + 1)

\* Lines 145-162 for one line: whether a row is appended.
RowParses(line) ==
    /\ line.nfields >= 5
    /\ line.staid # <<>>
    /\ line.tx # <<>>
    /\ line.q # <<>>

\* Lines 155-160.
RawRow(line) ==
    [STAID |-> line.staid[1], DATE |-> line.date, TX |-> line.tx[1], Q_TX |-> line.q[1]]

\* Lines 144-162: the list data after the loop.
RECURSIVE ParseFileLines(_, _, _)
ParseFileLines(lines, i, acc) ==
    IF i > Len(lines) THEN acc
    ELSE ParseFileLines(lines, i + 1,
            IF RowParses(lines[i]) THEN Append(acc, RawRow(lines[i])) ELSE acc)

\* Lines 126-164.
LoadStationFile(files, staid) ==
    IF files[staid] = None THEN NoFrame
    ELSE LET lines == files[staid][1]
             data == ParseFileLines(lines, FileDataStart(lines, 1) + 1, <<>>)
         IN  IF data = <<>> THEN NoFrame
             ELSE [columns |-> RawColumns, rows |-> data]

\* Lines 184 and 187: the two filters.
KeepRaw(r) == r.Q_TX = 0 /\ r.TX # MissingValue

\* Lines 190 and 193: degrees (in hundredths) from tenths of a degree, and the
\* DATE string parsed.
CleanRow(r) ==
    [STAID |-> r.STAID, DATE |-> r.DATE.day, TX |-> r.TX * 10, Q_TX |-> r.Q_TX]

Returned(table) == [status |-> "returned", error |-> "", table |-> table]
Raised(error) == [status |-> "raised", error |-> error, table |-> NoFrame]
NotCalled == [status |-> "none", error |-> "", table |-> NoFrame]

\* Lines 180-195.  df['DATE'] raises KeyError when the table has no DATE
\* column; pd.to_datetime raises ValueError on a string that is no date.
CleanTemperatureData(df) ==
    IF df.rows = <<>> THEN Returned(df)
    ELSE LET kept == SelectSeq(df.rows, KeepRaw)
         IN  IF "DATE" \notin df.columns THEN Raised("KeyError")
             ELSE IF \E i \in 1..Len(kept) : ~kept[i].DATE.valid THEN Raised("ValueError")
             ELSE Returned([columns |-> df.columns,
                            rows |-> [i \in 1..Len(kept) |-> CleanRow(kept[i])]])

\* Lines 225-228.
WithMeta(rows, station) ==
    [i \in 1..Len(rows) |->
        [STAID |-> rows[i].STAID, DATE |-> rows[i].DATE, TX |-> rows[i].TX,
         Q_TX |-> rows[i].Q_TX, LAT |-> station.LAT_DEC]]

\* Lines 216-230: the frames of all_data, concatenated; frames counts them.
RECURSIVE CollectCountry(_, _, _, _)
CollectCountry(meta, i, cc, files) ==
    IF i > Len(meta) THEN [status |-> "returned", rows |-> <<>>, frames |-> 0]
    ELSE IF meta[i].CN # cc THEN CollectCountry(meta, i + 1, cc, files)
    ELSE LET df == LoadStationFile(files, meta[i].STAID)
             rest == CollectCountry(meta, i + 1, cc, files)
         IN  IF df.rows = <<>> THEN rest
             ELSE LET c == CleanTemperatureData(df)
                  IN  IF c.status = "raised" \/ rest.status = "raised"
                      THEN [status |-> "raised", rows |-> <<>>, frames |-> 0]
                      ELSE [status |-> "returned",
                            rows |-> WithMeta(c.table.rows, meta[i]) \o rest.rows,
                            frames |-> rest.frames + 1]

\* The optional date_range: <<>> is None, <<<<start, end>>>> a pair of days.
DateRanges == {None} \cup {Some(<<a, b>>) : a \in {1, 2}, b \in {1, 2, 3}}

\* Lines 238-243.
InDateRange(r, range) ==
    range = None \/ (r.DATE >= range[1][1] /\ r.DATE <= range[1][2])

\* Lines 209-246.
LoadCountryStations(files, cc, range) ==
    LET all == CollectCountry(StationsMeta, 1, cc, files)
    IN  IF all.status = "raised" THEN Raised("ValueError")
        ELSE IF all.frames = 0 THEN Returned(NoFrame)
        ELSE Returned([columns |-> CleanColumns,
                       rows |-> SelectSeq(all.rows, LAMBDA r : InDateRange(r, range))])

\* The raw tables clean_temperature_data is handed directly: with and without
\* a DATE column.
RawRowSamples ==
    [STAID : {1}, DATE : {DateString(TRUE, 1), BadDateString},
     TX : {250, MissingValue, 10 * MissingValue}, Q_TX : {0, 1, 9}]
UndatedRowSamples == [TX : {250, 300, MissingValue}, Q_TX : {0, 1, 9}]
RawTables ==
    {[columns |-> RawColumns, rows |-> rows] : rows \in SeqsUpTo(RawRowSamples, MaxRawRows)}
    \cup {[columns |-> {"TX", "Q_TX"}, rows |-> rows] :
             rows \in SeqsUpTo(UndatedRowSamples, MaxRawRows)}

\* A loader over a data directory.
LoaderInit ==
    /\ \E f1 \in FileContents(1), f2 \in FewFileContents(2) :
          station_files = [s \in StationIdsOfMeta |->
                              IF s = 1 THEN f1 ELSE IF s = 2 THEN f2 ELSE OtherCountryFile]
    /\ raw_df = [staid |-> 0, table |-> NoFrame]
    /\ clean_out = NotCalled
    /\ country_out = [cc |-> "", range |-> None, result |-> NotCalled]

\* A raw table given to the cleaning step on its own.
CleanInit ==
    /\ station_files = [s \in StationIdsOfMeta |-> None]
    /\ raw_df \in {[staid |-> 0, table |-> t] : t \in RawTables}
    /\ clean_out = NotCalled
    /\ country_out = [cc |-> "", range |-> None, result |-> NotCalled]

\* One call of each reading operation is followed.
load_station_file ==
    /\ raw_df.staid = 0
    /\ \E staid \in StationIdsOfMeta :
          raw_df' = [staid |-> staid, table |-> LoadStationFile(station_files, staid)]
    /\ clean_out' = NotCalled
    /\ UNCHANGED <<station_files, country_out>>

clean_temperature_data ==
    /\ clean_out = NotCalled
    /\ clean_out' = CleanTemperatureData(raw_df.table)
    /\ UNCHANGED <<station_files, raw_df, country_out>>

load_country_stations ==
    /\ country_out.result.status = "none"
    /\ \E cc \in CountryCodes, range \in DateRanges :
          country_out' = [cc |-> cc, range |-> range,
                          result |-> LoadCountryStations(station_files, cc, range)]
    /\ UNCHANGED <<station_files, raw_df, clean_out>>

LoaderNext ==
    \/ load_station_file /\ UNCHANGED NotLoad
    \/ clean_temperature_data /\ UNCHANGED NotLoad
    \/ load_country_stations /\ UNCHANGED NotLoad

CleanNext == clean_temperature_data /\ UNCHANGED NotLoad

LoadIdle ==
    /\ station_files = [s \in StationIdsOfMeta |-> None]
    /\ raw_df = [staid |-> 0, table |-> NoFrame]
    /\ clean_out = NotCalled
    /\ country_out = [cc |-> "", range |-> None, result |-> NotCalled]

----------------------------------------------------------------------------
(* One covariate lookup: the file selection of get_ndvi_value and of
   load_ndvi_for_date, and the decoding of the stored byte *)

MaxListing == 2     \* files in the covariate directory

QueryFiles ==
    { NdviFile(1, 3, <<202000>>, <<202001>>, "ok"),
      NdviFile(2, 3, <<202001>>, <<202100>>, "ok"),
      NdviFile(3, 3, <<202000>>, <<202100>>, "ok"),
      NdviFile(4, 3, <<>>, <<202100>>, "ok"),
      NdviFile(5, 2, <<>>, <<>>, "ok"),
      NdviFile(6, 3, <<202001>>, <<202100>>, "corrupt") }
QueryDates == {202000, 202001, 202100}

\* Query points <<lat, lon>>: on the pixel (1, 1), north of the raster, east
\* of the raster.
PointInside == <<2, 2>>
QueryPoints == {PointInside, <<5, 2>>, <<2, 9>>}
\* The point on the pixel (2, 0), whose byte tells the rasters apart.
PointOfFileMark == <<1, 1>>

\* inference.py lines 52-66: the same scan as get_ndvi_value makes.
RECURSIVE SelectNdviFileForDate(_, _, _)
SelectNdviFileForDate(files, i, date) ==
    IF i > Len(files) THEN 0
    ELSE LET f == files[i]
         IN  IF /\ f.nparts >= 3
                /\ f.start # <<>>
                /\ f.end # <<>>
                /\ f.start[1] <= date
                /\ date < f.end[1]
             THEN i
             ELSE SelectNdviFileForDate(files, i + 1, date)

\* inference.py lines 68-74: ValueError when no file was selected, and the
\* error of rasterio.open when the selected file cannot be opened.
LoadNdviForDate(files, date) ==
    LET i == SelectNdviFileForDate(files, 1, date)
    IN  IF i = 0 THEN [status |-> "raised", selected |-> 0]
        ELSE IF files[i].status = "corrupt" THEN [status |-> "raised", selected |-> i]
        ELSE [status |-> "loaded", selected |-> i]

NoQuery == [status |-> "none", selected |-> 0]
NoLookup == [status |-> "none", selected |-> 0, value |-> NaN, rows |-> <<>>]

\* A directory listing and a query date.
SelectInit ==
    /\ stored_byte = 100
    /\ q_files \in SeqsUpTo(QueryFiles, MaxListing)
    /\ q_date \in QueryDates
    /\ q_point = PointOfFileMark
    /\ q_train = NoLookup
    /\ q_infer = NoQuery

\* A raster whose pixel (1, 1) stores any byte, behind one window.
DecodeInit ==
    /\ stored_byte \in 0..255
    /\ q_files \in { <<>>,
                     << NdviFile(1, 3, <<202000>>, <<202100>>, "ok") >>,
                     << NdviFile(6, 3, <<202000>>, <<202100>>, "corrupt") >> }
    /\ q_date = 202001
    /\ q_point \in QueryPoints
    /\ q_train = NoLookup
    /\ q_infer = NoQuery

\* data_preparation.py lines 435-458: the two lookups of one observation of
\* build_training_cube, the baseline being found, and the row it appends.
LookupForTraining ==
    /\ q_train.status = "none"
    /\ LET r == get_ndvi_value(EmptyCache, q_files, q_date, q_point[1], q_point[2])
           era5_temp == Num(1800)
           row == StationRow(1, q_date, 1250)
       IN  q_train' = [status |-> "returned",
                       selected |-> SelectNdviFile(q_files, 1, q_date),
                       value |-> r.val,
                       rows |-> IF SkipRow(era5_temp, r.val) THEN <<>>
                                ELSE <<CubeRow(row, era5_temp, r.val)>>]
    /\ UNCHANGED <<stored_byte, q_files, q_date, q_point, q_infer>>

\* inference.py line 297: load_ndvi_for_date for the query date.
LookupForInference ==
    /\ q_infer.status = "none"
    /\ q_infer' = LoadNdviForDate(q_files, q_date)
    /\ UNCHANGED <<stored_byte, q_files, q_date, q_point, q_train>>

QueryNext ==
    \/ LookupForTraining /\ UNCHANGED NotQuery
    \/ LookupForInference /\ UNCHANGED NotQuery

QueryIdle ==
    /\ stored_byte = 0
    /\ q_files = <<>>
    /\ q_date = 202000
    /\ q_point = PointInside
    /\ q_train = NoLookup
    /\ q_infer = NoQuery

----------------------------------------------------------------------------
(* ResidualLearningModel.evaluate, on a trained model *)

MaxEvalRows == 2    \* rows of the test set

\* The rows of a cube the test set is drawn from.
EvalRows ==
    {CubeRow(StationRow(st, 202000, tx), era5_temp, ndvi_value) :
        st \in Stations, tx \in Temps, era5_temp \in {Num(1200), Num(2900)},
        ndvi_value \in {Num(-54), Num(100)}}

\* The integer square root, by bisection: root of x within lo..hi.
RECURSIVE RootBetween(_, _, _)
RootBetween(x, lo, hi) ==
    IF lo >= hi THEN lo
    ELSE LET mid == (lo + hi + 1) \div 2
         IN  IF mid * mid <= x THEN RootBetween(x, mid, hi) ELSE RootBetween(x, lo, mid - 1)

\* np.sqrt(mean_squared_error(a, b)) of two columns in hundredths of a degree:
\* the root mean square difference, in thousandths.
RECURSIVE SumSeq(_)
SumSeq(xs) == IF xs = <<>> THEN 0 ELSE xs[1] + SumSeq(Tail(xs))

SquaredErrors(y_true, y_pred) ==
    [k \in 1..Len(y_true) |-> (y_true[k] - y_pred[k]) * (y_true[k] - y_pred[k])]

Rmse(y_true, y_pred) ==
    RootBetween((100 * SumSeq(SquaredErrors(y_true, y_pred))) \div Len(y_true), 0, 46339)

\* mean_absolute_error, in thousandths.
Mae(y_true, y_pred) ==
    (10 * SumSeq([k \in 1..Len(y_true) |-> Abs(y_true[k] - y_pred[k])])) \div Len(y_true)

\* r2_score is 1 - ss_res / ss_tot; the two sums, with n squared times the
\* total sum of squares to stay in integers.
R2Sums(y_true, y_pred) ==
    LET n == Len(y_true)
        total == SumSeq(y_true)
    IN  [ss_res |-> SumSeq(SquaredErrors(y_true, y_pred)),
         nn_ss_tot |-> SumSeq([k \in 1..n |-> (n * y_true[k] - total) * (n * y_true[k] - total)])]

Column(df, name) == [k \in 1..Len(df) |-> Val(df[k][name])]

\* Line 215.
TempPred(df, y_pred) == [k \in 1..Len(df) |-> Val(df[k].ERA5_Temp) + y_pred[k]]

\* Line 225.
ImprovementRmse_Reversed(baseline_rmse, temp_rmse) == temp_rmse - baseline_rmse

ImprovementRmse(baseline_rmse, temp_rmse) == baseline_rmse - temp_rmse

NoMetrics == [status |-> "none", y_pred |-> <<>>, values |-> <<>>]

EvalInit ==
    /\ eval_df \in SeqsUpTo(EvalRows, MaxEvalRows)
    /\ metrics = NoMetrics

\* Lines 193-227.  An empty test set has no Residual column to read (and the
\* regressor takes no empty matrix): the call raises.
evaluate ==
    /\ metrics.status = "none"
    /\ IF ModelPredictRaises(eval_df)
       THEN metrics' = [status |-> "raised", y_pred |-> <<>>, values |-> <<>>]
       ELSE LET y_true == Column(eval_df, "Residual")
                y_pred == [k \in 1..Len(eval_df) |-> Val(ModelPredict(eval_df)[k])]
                temp_pred == TempPred(eval_df, y_pred)
                temp_true == Column(eval_df, "Station_Temp")
                era5_baseline == Column(eval_df, "ERA5_Temp")
                temp_rmse == Rmse(temp_true, temp_pred)
                baseline_rmse == Rmse(temp_true, era5_baseline)
            IN  metrics' =
                  [status |-> "returned",
                   y_pred |-> y_pred,
                   values |-> <<[RMSE |-> Rmse(y_true, y_pred),
                                 MAE |-> Mae(y_true, y_pred),
                                 R2 |-> R2Sums(y_true, y_pred),
                                 Temp_RMSE |-> temp_rmse,
                                 Temp_MAE |-> Mae(temp_true, temp_pred),
                                 Baseline_RMSE |-> baseline_rmse,
                                 Baseline_MAE |-> Mae(temp_true, era5_baseline),
                                 Improvement_RMSE |-> ImprovementRmse(baseline_rmse, temp_rmse)]>>]
    /\ UNCHANGED eval_df

EvalNext == evaluate /\ UNCHANGED NotEval

EvalIdle ==
    /\ eval_df = <<>>
    /\ metrics = NoMetrics

----------------------------------------------------------------------------
(* Specifications *)

InitCube ==
    /\ CubeInit
    /\ SplitIdle /\ ModelIdle /\ MapIdle /\ ParseIdle /\ LoadIdle /\ QueryIdle
    /\ EvalIdle

SpecCube == InitCube /\ [][CubeNext]_vars

InitReuse ==
    /\ ReuseInit
    /\ SplitIdle /\ ModelIdle /\ MapIdle /\ ParseIdle /\ LoadIdle /\ QueryIdle /\ EvalIdle
SpecReuse == InitReuse /\ [][ReuseNext]_vars

InitSplit ==
    /\ SplitInit
    /\ CubeIdle /\ ModelIdle /\ MapIdle /\ ParseIdle /\ LoadIdle /\ QueryIdle
    /\ EvalIdle

SpecSplit == InitSplit /\ [][SplitNext]_vars

InitModel ==
    /\ ModelInit
    /\ CubeIdle /\ SplitIdle /\ MapIdle /\ ParseIdle /\ LoadIdle /\ QueryIdle
    /\ EvalIdle

SpecModel == InitModel /\ [][ModelNext]_vars

InitMap ==
    /\ MapInit
    /\ CubeIdle /\ SplitIdle /\ ModelIdle /\ ParseIdle /\ LoadIdle /\ QueryIdle
    /\ EvalIdle

SpecMap == InitMap /\ [][MapNext]_vars

InitParse ==
    /\ ParseInit
    /\ CubeIdle /\ SplitIdle /\ ModelIdle /\ MapIdle /\ LoadIdle /\ QueryIdle
    /\ EvalIdle

SpecParse == InitParse /\ [][ParseNext]_vars

InitLoader ==
    /\ LoaderInit
    /\ CubeIdle /\ SplitIdle /\ ModelIdle /\ MapIdle /\ ParseIdle /\ QueryIdle
    /\ EvalIdle

SpecLoader == InitLoader /\ [][LoaderNext]_vars

InitClean ==
    /\ CleanInit
    /\ CubeIdle /\ SplitIdle /\ ModelIdle /\ MapIdle /\ ParseIdle /\ QueryIdle
    /\ EvalIdle

SpecClean == InitClean /\ [][CleanNext]_vars

InitSelect ==
    /\ SelectInit
    /\ CubeIdle /\ SplitIdle /\ ModelIdle /\ MapIdle /\ ParseIdle /\ LoadIdle
    /\ EvalIdle

SpecSelect == InitSelect /\ [][QueryNext]_vars

InitDecode ==
    /\ DecodeInit
    /\ CubeIdle /\ SplitIdle /\ ModelIdle /\ MapIdle /\ ParseIdle /\ LoadIdle
    /\ EvalIdle

SpecDecode == InitDecode /\ [][QueryNext]_vars

InitGeo ==
    /\ GeoInit
    /\ CubeIdle /\ ModelIdle /\ MapIdle /\ ParseIdle /\ LoadIdle /\ QueryIdle
    /\ EvalIdle

SpecGeo == InitGeo /\ [][GeoNext]_vars

InitEval ==
    /\ EvalInit
    /\ CubeIdle /\ SplitIdle /\ ModelIdle /\ MapIdle /\ ParseIdle /\ LoadIdle /\ QueryIdle

SpecEval == InitEval /\ [][EvalNext]_vars

\* The run is sequential and nothing suspends it: a step that can be taken is
\* taken.
SpecMapLive == SpecMap /\ WF_vars(MapNext)

----------------------------------------------------------------------------
(* Claims on the spatial split *)

Count(df, r) == Cardinality({i \in 1..Len(df) : df[i] = r})

\* C2: the station ids of train_df and of test_df are disjoint, together they
\* are the station ids of the input, and every input row is on the train side
\* if and only if its station id is a train id, and on the test side otherwise.
C2_SplitIsByStation ==
    split_pc = "done" =>
        /\ IdSet(train_df) \cap IdSet(test_df) = {}
        /\ IdSet(train_df) \cup IdSet(test_df) = IdSet(split_df)
        /\ Len(train_df) + Len(test_df) = Len(split_df)
        /\ \A r \in SplitRows :
               /\ Count(train_df, r) =
                      IF r.STAID \in IdSet(train_df) THEN Count(split_df, r) ELSE 0
               /\ Count(test_df, r) =
                      IF r.STAID \in IdSet(train_df) THEN 0 ELSE Count(split_df, r)

\* A split of a cube in which a station has several rows and both sides are
\* populated.
C2_Witness ==
    /\ split_pc = "done"
    /\ train_df # <<>>
    /\ test_df # <<>>
    /\ \E i, j \in 1..Len(split_df) :
           i # j /\ split_df[i].STAID = split_df[j].STAID /\ split_df[i] # split_df[j]

----------------------------------------------------------------------------
(* Claims on the residual model *)

\* C8: load returns no instance for an artifact whose stored feature-name list
\* is not the training ordering.
C8_LoadRejectsOtherOrdering ==
    last_load.out = "returned" =>
        last_load.read.data.feature_names = Some(FeatureNames)

\* C9: predict returns predictions only when the feature vector it passes to
\* the regressor agrees, in length and order, with the feature ordering
\* recorded on the model when it was called.
C9_PredictFailsOnMismatch ==
    last_predict.out = "returned" =>
        last_predict.recorded = Some(last_predict.passed)

\* C10: loading the artifact that a trained model saved yields an instance with
\* that model's feature_names, model_type and fitted regressor.
Trained(m) == m # None /\ m[1].fitted
C10_SaveLoadRoundTrip ==
    (/\ last_load.out = "returned"
     /\ last_load.read.origin = "save"
     /\ Trained(last_load.read.writer.model)) =>
        /\ last_load.instance.feature_names = last_load.read.writer.feature_names
        /\ last_load.instance.model_type = last_load.read.writer.model_type
        /\ last_load.instance.model = last_load.read.writer.model

\* A trained boosting model was saved, and the artifact was loaded after the
\* instance in use had been replaced by one read from another artifact.
C10_Witness ==
    /\ last_load.out = "returned"
    /\ last_load.read.origin = "save"
    /\ Trained(last_load.read.writer.model)
    /\ last_load.read.writer.model[1].family = "XGBRegressor"
    /\ last_load.instance.model_type = "xgboost"
    /\ model = last_load.instance.model
    /\ last_predict.out = "returned"

----------------------------------------------------------------------------
(* Claims on the map generator *)

Completed(stage) == \E i \in 1..Len(stages) : stages[i] = stage
ValidPixel(p) == ~IsNaN(era5_upsampled[p]) /\ ~IsNaN(ndvi[p])
RowsOfPixel(p) == {k \in 1..Len(feature_df) : feature_df[k].row = p[1] /\ feature_df[k].col = p[2]}

\* C4: a pixel whose baseline or covariate is NaN has no row in the feature
\* grid and is NaN in the output map; every other pixel has exactly one row
\* and a value in the map; the map has the shape of the covariate array.
C4_InvalidPixelsAreNoData ==
    /\ Completed("BUILD_FEATURE_GRID") =>
           /\ \A p \in Pixels :
                  Cardinality(RowsOfPixel(p)) = IF ValidPixel(p) THEN 1 ELSE 0
           /\ Len(feature_df) = Cardinality({p \in Pixels : ValidPixel(p)})
    /\ Completed("RECONSTRUCT") =>
           /\ DOMAIN highres_map = DOMAIN ndvi
           /\ \A p \in Pixels : IsNaN(highres_map[p]) <=> ~ValidPixel(p)
           /\ Cardinality({p \in Pixels : ~IsNaN(highres_map[p])}) = Len(feature_df)

\* A map with a pixel lost to a NaN covariate, another lost to a NaN baseline
\* and a predicted pixel.
C4_Witness ==
    /\ Completed("RECONSTRUCT")
    /\ \E p \in Pixels : IsNaN(ndvi[p]) /\ ~IsNaN(era5_upsampled[p])
    /\ \E p \in Pixels : ~IsNaN(ndvi[p]) /\ IsNaN(era5_upsampled[p])
    /\ \E p \in Pixels : ~IsNaN(highres_map[p])

\* C5: for every surviving pixel the feature row is built from that pixel's
\* own inputs, the residual map holds at (row, col) the residual predicted for
\* that row, and the output map holds the baseline at (row, col) plus it.
C5_ReconstructionAtOwnPixel ==
    Completed("RECONSTRUCT") =>
        \A k \in 1..Len(feature_df) :
            LET r == feature_df[k]
                p == <<r.row, r.col>>
            IN  /\ r.ERA5_Temp = era5_upsampled[p]
                /\ r.NDVI = ndvi[p]
                /\ predicted_residuals[k] = Num(RegressorValue(FeatureVector(r)))
                /\ residual_map[p] = predicted_residuals[k]
                /\ highres_map[p] = FAdd(era5_upsampled[p], predicted_residuals[k])

\* A reconstructed map whose first pixel was dropped and which holds two
\* different predictions.
C5_Witness ==
    /\ Completed("RECONSTRUCT")
    /\ Len(feature_df) >= 2
    /\ ~ValidPixel(<<0, 0>>)
    /\ predicted_residuals[1] # predicted_residuals[2]

\* What is left to do: the dates not yet ended, then the stages of the date at
\* hand.
StageRank ==
    CASE map_pc = "load_model" -> 9
      [] map_pc = "load_covariate" -> 8
      [] map_pc = "load_baseline" -> 7
      [] map_pc = "reproject" -> 6
      [] map_pc = "feature_grid" -> 5
      [] map_pc = "predict" -> 4
      [] map_pc = "reconstruct" -> 3
      [] map_pc = "write" -> 2
      [] map_pc = "write_residual" -> 1
      [] OTHER -> 0
Remaining == 10 * (Len(map_dates) + 1 - date_idx) + StageRank
FilesOfOtherDates(files, d) == {f \in files : f[2] # d}

\* C7: the dates are attempted once each, in ascending order; a failed date
\* does not keep a later date from being attempted nor change what an earlier
\* date produced; and the loop ends after the last date.
C7_EveryDateAttemptedOnce ==
    /\ [](/\ Len(outcomes) = date_idx - 1
          /\ Len(outcomes) <= Len(map_dates)
          /\ \A i \in 1..Len(outcomes) : outcomes[i].date = map_dates[i]
          /\ \A i \in 1..Len(outcomes) :
                 outcomes[i].status = "ok" =>
                     {<<"highres_temp", map_dates[i]>>,
                      <<"residual_highres_temp", map_dates[i]>>} \subseteq out_files
          /\ map_pc = "done" => Len(outcomes) = Len(map_dates)
          /\ map_pc \notin {"done", "aborted"} => ENABLED MapNext)
    /\ [][/\ Remaining' < Remaining
          /\ \A i \in 1..Len(outcomes) : outcomes'[i] = outcomes[i]
          /\ date_idx <= Len(map_dates) =>
                 FilesOfOtherDates(out_files', Date) = FilesOfOtherDates(out_files, Date)]_vars
    /\ <>(map_pc \in {"done", "aborted"})

\* A finished run of several dates whose first date failed and whose last
\* date was written.
C7_Witness ==
    /\ map_pc = "done"
    /\ Len(outcomes) >= 2
    /\ outcomes[1].status = "failed"
    /\ outcomes[Len(outcomes)].status = "ok"

----------------------------------------------------------------------------
(* Claims on the station catalogue *)

\* A coordinate field that is a sign-prefixed deg:min:sec.
WellFormedDms(s) ==
    s.first \in {"+", "-"} /\ s.nparts = 3 /\ s.deg # <<>> /\ s.min # <<>> /\ s.sec # <<>>

\* A catalogue row with six fields, an integer id, an integer elevation and
\* two well-formed coordinates.
WellFormedLine(l) ==
    /\ ~l.blank /\ l.nfields >= 6
    /\ l.staid # <<>> /\ l.hght # <<>>
    /\ WellFormedDms(l.lat) /\ WellFormedDms(l.lon)

\* The rows of the catalogue: the positions after the header line.
RowIndices == (DataStart(catalogue, 1) + 1)..Len(catalogue)

\* C11: the table parse_stations returns holds at most one record per station
\* id, and when several well-formed rows carry one id the record kept is the
\* one of the first such row.
C11_OneRecordPerStation ==
    parsed.status = "returned" =>
        /\ \A i, j \in 1..Len(parsed.table) :
              parsed.table[i].STAID = parsed.table[j].STAID => i = j
        /\ \A i \in RowIndices :
              (/\ WellFormedLine(catalogue[i])
               /\ \A k \in RowIndices :
                     (k < i /\ WellFormedLine(catalogue[k]))
                        => catalogue[k].staid # catalogue[i].staid)
              => \E r \in 1..Len(parsed.table) :
                    /\ parsed.table[r].STAID = catalogue[i].staid[1]
                    /\ parsed.table[r].STANAME = catalogue[i].staname

\* C12: parse_stations never fails on malformed rows: whatever the catalogue
\* holds, the call returns a table, the table holds the record of every
\* well-formed row and of no other row, and every malformed row was warned of.
C12_MalformedRowsAreSkipped ==
    parse_pc # "ready" /\ parse_pc # "idle" =>
        /\ parsed.status = "returned"
        /\ {parsed.table[r] : r \in 1..Len(parsed.table)}
             = {StationRecord(catalogue[i]) :
                    i \in {k \in RowIndices : WellFormedLine(catalogue[k])}}
        /\ parsed.warnings
             = Cardinality({i \in RowIndices :
                    ~catalogue[i].blank /\ ~WellFormedLine(catalogue[i])})

----------------------------------------------------------------------------
(* Claims on the observation files *)

\* The lines of a station's file that are rows: those after the header line.
FileRowsOf(s) ==
    IF station_files[s] = None THEN <<>>
    ELSE LET lines == station_files[s][1]
         IN  SubSeq(lines, FileDataStart(lines, 1) + 1, Len(lines))

\* A row that parses: five fields, integer id, value and quality code, and a
\* DATE field that is a date.
ValidFileLine(l) ==
    l.nfields >= 5 /\ l.staid # <<>> /\ l.tx # <<>> /\ l.q # <<>> /\ l.date.valid

\* A valid row that cleaning keeps.
SurvivingLine(l) == ValidFileLine(l) /\ l.q[1] = 0 /\ l.tx[1] # -9999

\* The observation a surviving row stands for, in hundredths of a degree.
ObservationOf(l) == [STAID |-> l.staid[1], DATE |-> l.date.day, TX |-> 10 * l.tx[1], Q_TX |-> 0]

\* C13: loading is non-fatal per row: load_station_file followed by
\* clean_temperature_data returns, whatever malformed rows the file holds, the
\* observations of all its valid rows, and load_country_stations never fails.
C13_MalformedRowIsNotFatal ==
    /\ (raw_df.staid # 0 /\ clean_out.status # "none") =>
          /\ clean_out.status = "returned"
          /\ clean_out.table.rows
               = LET kept == SelectSeq(FileRowsOf(raw_df.staid), SurvivingLine)
                 IN  [i \in 1..Len(kept) |-> ObservationOf(kept[i])]
    /\ country_out.result.status # "raised"

\* C14: clean_temperature_data succeeds on any raw table with the value and
\* quality columns; a raw row survives iff its quality code is 0 and its value
\* is not -9999; a surviving row's temperature is its own raw value divided by
\* 10 (ten hundredths of a degree per raw unit); no row is added.
C14_CleaningKeepsExactlyValidRows ==
    (raw_df.staid = 0 /\ clean_out.status # "none") =>
        /\ clean_out.status = "returned"
        /\ LET raw == raw_df.table.rows
               kept == SelectSeq(raw, LAMBDA r : r.Q_TX = 0 /\ r.TX # -9999)
               out == clean_out.table.rows
           IN  /\ Len(out) = Len(kept)
               /\ \A i \in 1..Len(out) : out[i].TX = 10 * kept[i].TX /\ out[i].Q_TX = 0

\* C15: cleaning is idempotent: the quality filter (quality == 0) and the
\* missing-value filter (value != -9999, a value in degrees being in
\* hundredths here) applied to the output of clean_temperature_data remove no
\* row and change no value.
C15_CleaningIsIdempotent ==
    (raw_df.staid = 0 /\ clean_out.status = "returned") =>
        SelectSeq(clean_out.table.rows, LAMBDA r : r.Q_TX = 0 /\ r.TX # -9999 * 100)
            = clean_out.table.rows

\* The rows load_country_stations is to return for the stations of the
\* catalogue from position i on: per station of the country, in catalogue
\* order, the observations of its surviving rows inside the inclusive range.
RECURSIVE ExpectedCountryRows(_, _, _)
ExpectedCountryRows(i, cc, range) ==
    IF i > Len(StationsMeta) THEN <<>>
    ELSE LET st == StationsMeta[i]
             kept == SelectSeq(FileRowsOf(st.STAID),
                        LAMBDA l : /\ SurvivingLine(l)
                                   /\ range # None =>
                                        (range[1][1] <= l.date.day /\ l.date.day <= range[1][2]))
             own == [k \in 1..Len(kept) |->
                        [STAID |-> kept[k].staid[1], DATE |-> kept[k].date.day,
                         TX |-> 10 * kept[k].tx[1], Q_TX |-> 0, LAT |-> st.LAT_DEC]]
         IN  (IF st.CN = cc THEN own ELSE <<>>) \o ExpectedCountryRows(i + 1, cc, range)

\* C16: load_country_stations returns, for every country code and optional
\* range, the concatenation of the cleaned rows of exactly the stations of the
\* country, restricted to start <= date <= end; a station without a file, or
\* with no row left, adds nothing and causes no error; with no file at all for
\* the country the result is an empty table.
C16_CountryIsConcatenationInRange ==
    country_out.result.status # "none" =>
        LET cc == country_out.cc
            range == country_out.range
            res == country_out.result
        IN  /\ res.status = "returned"
            /\ res.table.rows = ExpectedCountryRows(1, cc, range)
            /\ (\A i \in 1..Len(StationsMeta) :
                   StationsMeta[i].CN = cc => station_files[StationsMeta[i].STAID] = None)
                 => res = Returned(NoFrame)

----------------------------------------------------------------------------
(* Claims on the covariate lookup *)

\* The name of the file parses and its window [start, end) holds the date.
WindowHolds(f, date) ==
    /\ f.nparts >= 3 /\ f.start # <<>> /\ f.end # <<>>
    /\ f.start[1] <= date /\ date < f.end[1]

\* The position in the listing of the first file whose window holds the
\* query date; 0 when there is none.
FirstMatch ==
    LET matching == {i \in 1..Len(q_files) : WindowHolds(q_files[i], q_date)}
    IN  IF matching = {} THEN 0 ELSE CHOOSE i \in matching : \A j \in matching : i <= j

\* C17: both lookups select the first file in listing order whose window
\* satisfies start <= date < end, ignoring files whose names do not parse:
\* get_ndvi_value reads its value from that file's raster and gives NaN when
\* there is no such file, load_ndvi_for_date loads that file and fails when
\* there is none.
C17_FirstWindowHoldingTheDate ==
    /\ q_train.status # "none" =>
          /\ q_train.selected = FirstMatch
          /\ FirstMatch = 0 => IsNaN(q_train.value)
          /\ (FirstMatch # 0 /\ q_files[FirstMatch].status = "ok")
                => q_train.value = Num(2 * (40 * q_files[FirstMatch].path) - 254)
    /\ q_infer.status # "none" =>
          /\ q_infer.selected = FirstMatch
          /\ FirstMatch = 0 => q_infer.status = "raised"
          /\ (FirstMatch # 0 /\ q_files[FirstMatch].status = "ok")
                => q_infer.status = "loaded"

\* Both lookups were made on a listing of two files whose windows both hold
\* the date, the date being the first day of the first window and the last
\* day before the end of the second.
C17_Witness ==
    /\ q_train.status = "returned" /\ q_infer.status = "loaded"
    /\ Len(q_files) = 2
    /\ WindowHolds(q_files[1], q_date) /\ WindowHolds(q_files[2], q_date)
    /\ q_files[1].start[1] = q_date
    /\ q_files[1].path # q_files[2].path
    /\ q_train.selected = 1

\* The lookup reaches a pixel: a file is selected, opens, and holds the point.
PixelIsRead ==
    /\ Len(q_files) = 1 /\ q_files[1].status = "ok"
    /\ q_point = PointInside

\* C18: get_ndvi_value decodes a stored byte v as missing when v = 255 and as
\* v/254*2-1 otherwise (2v - 254 in units of 1/254), a value in [-1, 1] with
\* v = 0 giving -1 and v = 254 giving 1; a point outside the raster or any
\* failure gives missing; every vegetation index stored in a training row is
\* in [-1, 1].
C18_DecodedIndexInUnitRange ==
    q_train.status # "none" =>
        /\ (PixelIsRead /\ stored_byte = 255) => IsNaN(q_train.value)
        /\ (PixelIsRead /\ stored_byte # 255) =>
              /\ q_train.value = Num(2 * stored_byte - 254)
              /\ -254 <= Val(q_train.value) /\ Val(q_train.value) <= 254
        /\ (PixelIsRead /\ stored_byte = 0) => q_train.value = Num(-254)
        /\ (PixelIsRead /\ stored_byte = 254) => q_train.value = Num(254)
        /\ ~PixelIsRead => IsNaN(q_train.value)
        /\ \A k \in 1..Len(q_train.rows) :
              /\ ~IsNaN(q_train.rows[k].NDVI)
              /\ -254 <= Val(q_train.rows[k].NDVI) /\ Val(q_train.rows[k].NDVI) <= 254

\* The largest byte that is a value was read and its training row was made.
C18_Witness ==
    /\ q_train.status = "returned"
    /\ PixelIsRead /\ stored_byte = 254
    /\ Len(q_train.rows) = 1
    /\ q_train.rows[1].NDVI = Num(254)

----------------------------------------------------------------------------
(* Claims on the geographic split *)

\* The k-th smallest number of a non-empty column.
KthSmallest(column, k) ==
    CHOOSE v \in {column[i] : i \in 1..Len(column)} :
        /\ Cardinality({i \in 1..Len(column) : column[i] < v}) < k
        /\ Cardinality({i \in 1..Len(column) : column[i] <= v}) >= k

\* C19: geographic_split puts a row in train_df iff its coordinate (LAT for
\* 'latitude', LON for 'longitude') is at most the median m of that coordinate
\* over all rows and in test_df iff it is above m (compared through 2m, the
\* sum of the two middle values); every row is in exactly one output, in
\* input order; test_size and random_state have no influence.
C19_SplitAtTheMedian ==
    (split_args.method = "geographic_split" /\ split_df # <<>>) =>
        LET col == IF split_args.split_type = "latitude" THEN "LAT" ELSE "LON"
            column == [i \in 1..Len(split_df) |-> split_df[i][col]]
            n == Len(column)
            m2 == KthSmallest(column, (n + 1) \div 2) + KthSmallest(column, n + 1 - (n + 1) \div 2)
        IN  /\ train_df = SelectSeq(split_df, LAMBDA r : 2 * r[col] <= m2)
            /\ test_df = SelectSeq(split_df, LAMBDA r : 2 * r[col] > m2)
            /\ \A r \in GeoRows : Count(train_df, r) + Count(test_df, r) = Count(split_df, r)
            /\ Len(train_df) + Len(test_df) = Len(split_df)

\* A split on longitude of an even number of rows whose median falls between
\* two values, with a row on each side.
C19_Witness ==
    /\ split_args = [method |-> "geographic_split", split_type |-> "longitude"]
    /\ Len(split_df) = 2
    /\ split_df[1].LON = 5 /\ split_df[2].LON = 0
    /\ train_df = <<split_df[2]>>
    /\ test_df = <<split_df[1]>>

----------------------------------------------------------------------------
(* Claims on the evaluation *)

\* r is the root mean square of a column of errors in hundredths of a degree,
\* in thousandths and rounded down.
IsRootMeanSquare(r, errors) ==
    LET ms100 == (100 * SumSeq([k \in 1..Len(errors) |-> errors[k] * errors[k]])) \div Len(errors)
    IN  r >= 0 /\ r * r <= ms100 /\ (r + 1) * (r + 1) > ms100

\* The sum of the squares of a column of errors.
SumOfSquares(errors) == SumSeq([k \in 1..Len(errors) |-> errors[k] * errors[k]])

\* C20: evaluate computes the full-temperature error between Station_Temp and
\* ERA5_Temp + predicted residual, the baseline error between Station_Temp and
\* ERA5_Temp alone, and reports Improvement_RMSE = Baseline_RMSE - Temp_RMSE,
\* which is positive exactly when the corrected prediction has the lower RMSE.
C20_ImprovementOverBaseline ==
    metrics.status = "returned" =>
        LET m == metrics.values[1]
            n == Len(eval_df)
            corrected == [k \in 1..n |->
                            Val(eval_df[k].Station_Temp)
                              - (Val(eval_df[k].ERA5_Temp) + metrics.y_pred[k])]
            uncorrected == [k \in 1..n |->
                            Val(eval_df[k].Station_Temp) - Val(eval_df[k].ERA5_Temp)]
        IN  /\ IsRootMeanSquare(m.Temp_RMSE, corrected)
            /\ IsRootMeanSquare(m.Baseline_RMSE, uncorrected)
            /\ m.Improvement_RMSE = m.Baseline_RMSE - m.Temp_RMSE
            /\ m.Improvement_RMSE > 0 <=> m.Temp_RMSE < m.Baseline_RMSE
            /\ m.Improvement_RMSE > 0 => SumOfSquares(corrected) < SumOfSquares(uncorrected)
            /\ m.Improvement_RMSE < 0 => SumOfSquares(corrected) > SumOfSquares(uncorrected)

\* An evaluation of two rows in which the correction lowers the error.
C20_Witness ==
    /\ metrics.status = "returned"
    /\ Len(eval_df) = 2
    /\ eval_df[1] # eval_df[2]
    /\ metrics.values[1].Improvement_RMSE > 0
    /\ metrics.values[1].Temp_RMSE > 0

----------------------------------------------------------------------------
(* generate_maps_for_period: the model load, the stages of a date, the files *)

\* C22: when ResidualLearningModel.load raises in generate_maps_for_period the
\* run ends there: no date is attempted, no stage runs, the model is never
\* asked for a prediction, no dataset is opened and no raster is written.
C22_LoadFailureIsFatal ==
    model_load = "raised" =>
        /\ map_pc = "aborted"
        /\ date_idx = 1
        /\ outcomes = <<>>
        /\ stages = <<>>
        /\ predicted_residuals = <<>>
        /\ era5_open = {}
        /\ out_files = {}

\* The load failed in a run asked for several dates.
C22_Witness ==
    /\ model_load = "raised"
    /\ map_pc = "aborted"
    /\ Len(map_dates) >= 2

\* C23: every file handle opened for a coarse archive during a run is closed
\* by the time the run ends; for generate_maps_for_period, no dataset opened
\* by load_era5_for_date is still open once the loop has ended.
C23_HandlesClosedAtRunEnd ==
    map_pc \in {"done", "aborted"} => era5_open = {}

\* The stages of generate_highres_map in the order of lines 294-376; the two
\* rasters of lines 339-376 are the stage WRITE.
StageOrder ==
    <<"LOAD_COVARIATE", "LOAD_BASELINE", "REPROJECT_BASELINE", "BUILD_FEATURE_GRID",
      "PREDICT", "RECONSTRUCT", "WRITE">>
StagesRun == SelectSeq(stages, LAMBDA st : st # "WRITE_RESIDUAL")
RankOfStage(st) ==
    IF st = "WRITE_RESIDUAL" THEN 8 ELSE CHOOSE k \in 1..Len(StageOrder) : StageOrder[k] = st
\* The stage about to run, as a position of StageOrder (8: the second raster).
StageAtHand == 9 - StageRank
FilesOfDate(d) == {f \in out_files : f[2] = d}

\* C26: the stages of a date run in the order LOAD_COVARIATE, LOAD_BASELINE,
\* REPROJECT_BASELINE, BUILD_FEATURE_GRID, PREDICT, RECONSTRUCT, WRITE; a stage
\* starts only when every earlier stage of the date has succeeded; after a
\* failed stage no later stage of the date runs; and a date whose covariate or
\* baseline could not be loaded has no prediction and no raster.
C26_StagesRunInOrder ==
    /\ StagesRun = SubSeq(StageOrder, 1, Len(StagesRun))
    /\ StageAtHand \in 2..8 =>
           /\ Len(stages) = StageAtHand - 1
           /\ \A k \in 1..(StageAtHand - 1) : k <= 7 => stages[k] = StageOrder[k]
    /\ (Len(outcomes) = date_idx - 1 /\ outcomes # <<>>
            /\ map_pc \in {"load_covariate", "done"}) =>
           LET last == outcomes[Len(outcomes)]
           IN  last.status = "failed" => Len(stages) = RankOfStage(last.stage) - 1
    /\ \A i \in 1..Len(outcomes) :
           (outcomes[i].status = "failed"
                /\ outcomes[i].stage \in {"LOAD_COVARIATE", "LOAD_BASELINE"}) =>
               FilesOfDate(outcomes[i].date) = {}
    /\ "PREDICT" \in {stages[k] : k \in 1..Len(stages)} =>
           {"LOAD_COVARIATE", "LOAD_BASELINE"} \subseteq {stages[k] : k \in 1..Len(stages)}

\* A run in which one date failed at its baseline and a later date went
\* through every stage.
C26_Witness ==
    /\ map_pc = "done"
    /\ \E i \in 1..Len(outcomes) :
           outcomes[i].status = "failed" /\ outcomes[i].stage = "LOAD_BASELINE"
    /\ outcomes[Len(outcomes)].status = "ok"
    /\ StagesRun = StageOrder

\* C28: a date for which generate_highres_map raised has neither its
\* temperature raster nor its residual raster afterwards; every date that has
\* ended has both rasters or none.
C28_FailedDateLeavesNoOutput ==
    \A i \in 1..Len(outcomes) :
        /\ outcomes[i].status = "failed" => FilesOfDate(outcomes[i].date) = {}
        /\ Cardinality(FilesOfDate(outcomes[i].date)) \in {0, 2}

----------------------------------------------------------------------------
(* TrainingCubeBuilder: what a run reports, the handle caches, close() *)

\* The messages that give the two totals (lines 421 and 461), and those
\* printed for a single row (lines 426, 286, 318, 363, 404).
TotalTexts == {"Building training cube from", "Built training cube with"}
PerRowTexts ==
    {"Processing row", "Error loading ERA5 file", "Error extracting ERA5 value",
     "Error loading NDVI file", "Error extracting NDVI"}

\* C21: the run reports how many records it skipped: once build_training_cube
\* has returned, one of the printed messages gives the number of dropped
\* observations, and that number is the number of input observations minus the
\* number of cube rows.
C21_DroppedCountIsReported ==
    cube_pc # "build" =>
        \E k \in 1..Len(printed) :
            /\ printed[k].text \notin TotalTexts \cup PerRowTexts
            /\ printed[k].n = Len(station_data) - Len(training_data)

OpenCount(source, key) ==
    Cardinality({k \in 1..Len(opens) : opens[k] = [source |-> source, key |-> key]})
OpenedKeys(source) == {opens[k].key : k \in {j \in 1..Len(opens) : opens[j].source = source}}
StatusOfPath(path) ==
    ndvi_files[CHOOSE i \in 1..Len(ndvi_files) : ndvi_files[i].path = path].status
NewQuery == lookups'[Len(lookups')]

\* C25: on one builder every archive is opened successfully at most once per
\* cache key and every covariate raster at most once per selected path; the
\* caches hold exactly the handles of those opens, so a later lookup with the
\* same key finds the handle and opens nothing; a lookup that finds no file or
\* whose open fails adds no entry, and a pair of lookups that both do so
\* leaves both caches as they were.
C25_HandlesAreOpenedOncePerKey ==
    /\ [](/\ \A k \in 1..Len(opens) : OpenCount(opens[k].source, opens[k].key) = 1
          /\ DOMAIN era5_cache = OpenedKeys("era5")
          /\ DOMAIN ndvi_cache = OpenedKeys("ndvi")
          /\ \A y \in DOMAIN era5_cache : era5_files[y] \notin {"absent", "corrupt"}
          /\ \A path \in DOMAIN ndvi_cache : StatusOfPath(path) # "corrupt"
          /\ \A i \in 1..Len(lookups) :
                 LET y == YearOf(lookups[i].date)
                     path == SelectedPath(ndvi_files, lookups[i].date)
                 IN  /\ era5_files[y] \notin {"absent", "corrupt"} => y \in DOMAIN era5_cache
                     /\ (path # 0 /\ StatusOfPath(path) # "corrupt") =>
                            path \in DOMAIN ndvi_cache)
    /\ [][Len(lookups') > Len(lookups) =>
              LET y == YearOf(NewQuery.date)
                  path == SelectedPath(ndvi_files, NewQuery.date)
                  era5_fails == era5_files[y] \in {"absent", "corrupt"}
                  ndvi_fails == path = 0 \/ StatusOfPath(path) = "corrupt"
              IN  /\ (era5_fails \/ y \in DOMAIN era5_cache) => era5_cache' = era5_cache
                  /\ (ndvi_fails \/ path \in DOMAIN ndvi_cache) => ndvi_cache' = ndvi_cache
                  /\ (y \in DOMAIN era5_cache /\ path \in DOMAIN ndvi_cache) =>
                         opens' = opens
                  /\ (era5_fails /\ ndvi_fails) =>
                         /\ era5_cache' = era5_cache
                         /\ ndvi_cache' = ndvi_cache]_vars

\* Two queries of one year and one validity window were answered with a
\* value, through one dataset and one raster, in a directory holding an
\* archive that cannot be opened.
C25_Witness ==
    /\ Len(lookups) >= 2
    /\ YearOf(lookups[1].date) = YearOf(lookups[2].date)
    /\ SelectedPath(ndvi_files, lookups[1].date) # 0
    /\ SelectedPath(ndvi_files, lookups[1].date) = SelectedPath(ndvi_files, lookups[2].date)
    /\ BothFound(1) /\ BothFound(2)
    /\ Len(opens) = 2
    /\ \E y \in Years : era5_files[y] = "corrupt"

\* C29: a lookup issued after close() does not read through a closed handle:
\* for a query answered before close() it returns what it returned then, and
\* the handles of the query's keys are open again afterwards.
C29_LookupAfterCloseReopens ==
    cube_pc = "reused" =>
        LET q == lookups[relookup.of]
            y == YearOf(q.date)
            path == SelectedPath(ndvi_files, q.date)
        IN  /\ relookup.era5 = q.era5
            /\ relookup.ndvi = q.ndvi
            /\ y \in DOMAIN era5_cache => era5_cache[y] = "open"
            /\ path \in DOMAIN ndvi_cache => ndvi_cache[path] = "open"

----------------------------------------------------------------------------
(* geographic_split and the stations *)

\* Lines 224-228 of data_preparation.py: every row of a station carries the
\* coordinates of that station's catalogue record.
OneLocationPerStation(df) ==
    \A i \in 1..Len(df), j \in 1..Len(df) :
        df[i].STAID = df[j].STAID => df[i].LAT = df[j].LAT /\ df[i].LON = df[j].LON

\* C27: for a cube in which all rows of a station carry one latitude and one
\* longitude, no station id occurs both in train_df and in test_df of
\* geographic_split, for either split_type.
C27_GeographicSplitKeepsStationsWhole ==
    (split_args.method = "geographic_split" /\ OneLocationPerStation(split_df)) =>
        IdSet(train_df) \cap IdSet(test_df) = {}

\* A split of a cube with two rows of one station and a row of another, the
\* two stations falling on different sides of the median, the station with
\* two rows lying on the median itself.
C27_Witness ==
    /\ split_args.method = "geographic_split"
    /\ OneLocationPerStation(split_df)
    /\ Len(split_df) = 3
    /\ IdSet(train_df) # {} /\ IdSet(test_df) # {}
    /\ Len(train_df) = 2
    /\ train_df[1].STAID = train_df[2].STAID

----------------------------------------------------------------------------
(* ResidualLearningModel: what predict writes, what save records *)

\* The instance in use was fitted by train or returned by load.
TrainedOrLoaded == Trained(model) \/ last_load.out = "returned"

\* C24: predict treats a trained or loaded model as read-only: a predict call
\* leaves the regressor, the feature_names list and the model_type as they
\* were before the call (evaluate and the map generator reach the model
\* through predict only).
C24_PredictLeavesTheModelUnchanged ==
    [][(predict /\ TrainedOrLoaded) => UNCHANGED <<model, feature_names, model_type>>]_vars

\* The family a model_type names (lines 142 and 157).
FamilyOfType(type) ==
    CASE type = "random_forest" -> "RandomForestRegressor"
      [] type = "xgboost" -> "XGBRegressor"
      [] OTHER -> "none"

\* C30: the model_type that save writes beside a regressor fitted by train
\* names the family of that regressor, whether or not the boosting library is
\* installed.
C30_SavedTagNamesTheFittedFamily ==
    (artifact # None /\ artifact[1].origin = "save" /\ Trained(artifact[1].data.model)) =>
        artifact[1].data.model[1].family = FamilyOfType(artifact[1].data.model_type)
====
